---- MODULE Spec2Model ----
(***************************************************************************)
(* Btock: markdown-table ingestion (DataParser) and KPI normalization      *)
(* (NormalizationCalculator).                                              *)
(*                                                                         *)
(* JavaScript values are modelled as records of one shape                  *)
(*   [t, n, d, s]   t in {"null","undefined","num","inf","nan","str"}      *)
(* a finite number is the exact rational n/d in lowest terms (d > 0), an   *)
(* infinity carries its sign in n, a string is the sequence s of its       *)
(* characters.  Finite arithmetic is exact (binary rounding of doubles is  *)
(* not modelled); the non-finite values follow IEEE-754 as JavaScript does.*)
(***************************************************************************)
EXTENDS Integers, Sequences, FiniteSets, TLC

\* ------------------------------------------------------------------------
\* JavaScript values
\* ------------------------------------------------------------------------
Null == [t |-> "null", n |-> 0, d |-> 1, s |-> <<>>]
Undefined == [t |-> "undefined", n |-> 0, d |-> 1, s |-> <<>>]
NaN == [t |-> "nan", n |-> 0, d |-> 1, s |-> <<>>]
Inf(sign) == [t |-> "inf", n |-> sign, d |-> 1, s |-> <<>>]
Str(chars) == [t |-> "str", n |-> 0, d |-> 1, s |-> chars]

Abs(x) == IF x < 0 THEN -x ELSE x
Sign(x) == IF x < 0 THEN -1 ELSE IF x > 0 THEN 1 ELSE 0

RECURSIVE GCD(_, _)
GCD(a, b) == IF b = 0 THEN a ELSE GCD(b, a % b)

\* the finite number n/d, d # 0, in lowest terms
Num(n, d) ==
  LET g == GCD(Abs(n), Abs(d))
      sg == IF d < 0 THEN -1 ELSE 1
  IN [t |-> "num", n |-> sg * (n \div g), d |-> sg * (d \div g), s |-> <<>>]

Int2Num(i) == Num(i, 1)
Zero == Num(0, 1)

IsNumber(v) == v.t \in {"num", "inf", "nan"}
IsFinite(v) == v.t = "num"
IsNaN(v) == v.t = "nan"
IsNullish(v) == v.t \in {"null", "undefined"}
\* sign of a number that is not NaN
SignOf(v) == IF v.t = "inf" THEN v.n ELSE Sign(v.n)

\* JavaScript truthiness (ToBoolean)
Truthy(v) ==
  CASE v.t = "null" -> FALSE
    [] v.t = "undefined" -> FALSE
    [] v.t = "nan" -> FALSE
    [] v.t = "num" -> v.n # 0
    [] v.t = "inf" -> TRUE
    [] v.t = "str" -> Len(v.s) > 0

\* a || b
Or(a, b) == IF Truthy(a) THEN a ELSE b

\* IEEE-754 arithmetic on numbers (finite part exact)
JsNeg(a) ==
  CASE a.t = "nan" -> NaN
    [] a.t = "inf" -> Inf(-a.n)
    [] a.t = "num" -> Num(-a.n, a.d)

JsAdd(a, b) ==
  CASE a.t = "nan" \/ b.t = "nan" -> NaN
    [] a.t = "inf" /\ b.t = "inf" -> IF a.n = b.n THEN a ELSE NaN
    [] a.t = "inf" /\ b.t = "num" -> a
    [] a.t = "num" /\ b.t = "inf" -> b
    [] a.t = "num" /\ b.t = "num" -> Num(a.n * b.d + b.n * a.d, a.d * b.d)

JsSub(a, b) == JsAdd(a, JsNeg(b))

JsMul(a, b) ==
  CASE a.t = "nan" \/ b.t = "nan" -> NaN
    [] a.t = "num" /\ b.t = "num" -> Num(a.n * b.n, a.d * b.d)
    [] OTHER -> IF SignOf(a) * SignOf(b) = 0 THEN NaN
                ELSE Inf(SignOf(a) * SignOf(b))

JsDiv(a, b) ==
  CASE a.t = "nan" \/ b.t = "nan" -> NaN
    [] a.t = "inf" /\ b.t = "inf" -> NaN
    [] a.t = "inf" /\ b.t = "num" -> Inf(a.n * (IF b.n < 0 THEN -1 ELSE 1))
    [] a.t = "num" /\ b.t = "inf" -> Zero
    [] a.t = "num" /\ b.t = "num" ->
         IF b.n = 0
         THEN (IF a.n = 0 THEN NaN ELSE Inf(Sign(a.n)))
         ELSE Num(a.n * b.d, a.d * b.n)

\* Math.abs
MathAbs(a) ==
  CASE a.t = "nan" -> NaN
    [] a.t = "inf" -> Inf(1)
    [] a.t = "num" -> Num(Abs(a.n), a.d)

\* v === 0
IsZero(v) == v.t = "num" /\ v.n = 0

\* ------------------------------------------------------------------------
\* Strings (sequences of characters) and parseFloat
\* ------------------------------------------------------------------------
Digits == {"0", "1", "2", "3", "4", "5", "6", "7", "8", "9"}
WhiteSpace == {" ", "\n", "\t"}

DigitVal(c) ==
  CASE c = "0" -> 0 [] c = "1" -> 1 [] c = "2" -> 2 [] c = "3" -> 3
    [] c = "4" -> 4 [] c = "5" -> 5 [] c = "6" -> 6 [] c = "7" -> 7
    [] c = "8" -> 8 [] c = "9" -> 9

RECURSIVE Pow10(_)
Pow10(k) == IF k = 0 THEN 1 ELSE 10 * Pow10(k - 1)

\* String.prototype.trim, in two halves
RECURSIVE TrimStart(_)
TrimStart(s) ==
  IF s # <<>> /\ Head(s) \in WhiteSpace THEN TrimStart(Tail(s)) ELSE s

RECURSIVE TrimEnd(_)
TrimEnd(s) ==
  IF s # <<>> /\ s[Len(s)] \in WhiteSpace
  THEN TrimEnd(SubSeq(s, 1, Len(s) - 1)) ELSE s

Trim(s) == TrimEnd(TrimStart(s))

\* first index >= i of s that does not hold a digit
RECURSIVE DigitsEnd(_, _)
DigitsEnd(s, i) ==
  IF i <= Len(s) /\ s[i] \in Digits THEN DigitsEnd(s, i + 1) ELSE i

\* value of the decimal digits s[i..j-1]
RECURSIVE DigitsValue(_, _, _)
DigitsValue(s, i, j) ==
  IF j <= i THEN 0 ELSE 10 * DigitsValue(s, i, j - 1) + DigitVal(s[j - 1])

InfinityLiteral == <<"I", "n", "f", "i", "n", "i", "t", "y">>

\* parseFloat applied to a string: the longest prefix (after leading white
\* space and a sign) that is Infinity or a StrDecimalLiteral, NaN when there
\* is none.  The stages pass on the positions found so far:
\*   p0 first character after the sign, p1 end of the integer digits,
\*   p2 end of the fraction digits, e0/e1 start and end of the exponent digits.
ExponentValue(t, e0, e1) == IF e1 > e0 THEN DigitsValue(t, e0, e1) ELSE 0

Scaled(mant, nFrac, ex, eNeg) ==
  IF eNeg THEN Num(mant, Pow10(nFrac) * Pow10(ex))
  ELSE Num(mant * Pow10(ex), Pow10(nFrac))

ParseExponent(t, mant, nFrac, p2) ==
  IF p2 <= Len(t) /\ t[p2] \in {"e", "E"}
  THEN IF p2 + 1 <= Len(t) /\ t[p2 + 1] \in {"+", "-"}
       THEN Scaled(mant, nFrac,
                   ExponentValue(t, p2 + 2, DigitsEnd(t, p2 + 2)),
                   t[p2 + 1] = "-")
       ELSE Scaled(mant, nFrac,
                   ExponentValue(t, p2 + 1, DigitsEnd(t, p2 + 1)), FALSE)
  ELSE Num(mant, Pow10(nFrac))

ParseFraction(t, sg, p0, p1, p2) ==
  IF (p1 - p0) + (p2 - (p1 + 1)) = 0 THEN NaN
  ELSE ParseExponent(t,
         sg * (DigitsValue(t, p0, p1) * Pow10(p2 - (p1 + 1))
               + DigitsValue(t, p1 + 1, p2)),
         p2 - (p1 + 1), p2)

ParseInteger(t, sg, p0, p1) ==
  IF p1 <= Len(t) /\ t[p1] = "."
  THEN ParseFraction(t, sg, p0, p1, DigitsEnd(t, p1 + 1))
  ELSE IF p1 - p0 = 0 THEN NaN
  ELSE ParseExponent(t, sg * DigitsValue(t, p0, p1), 0, p1)

ParseUnsigned(t, sg, p0) ==
  IF Len(t) >= p0 + 7 /\ SubSeq(t, p0, p0 + 7) = InfinityLiteral
  THEN Inf(sg)
  ELSE ParseInteger(t, sg, p0, DigitsEnd(t, p0))

ParseSigned(t) ==
  IF t # <<>> /\ t[1] = "-" THEN ParseUnsigned(t, -1, 2)
  ELSE IF t # <<>> /\ t[1] = "+" THEN ParseUnsigned(t, 1, 2)
  ELSE ParseUnsigned(t, 1, 1)

parseFloat(str) == ParseSigned(TrimStart(str))

\* isNaN(parsed) ? null : parsed
NullIfNaN(parsed) == IF IsNaN(parsed) THEN Null ELSE parsed

\* ------------------------------------------------------------------------
\* NormalizationCalculator
\* ------------------------------------------------------------------------
NA == <<"N", "/", "A">>

\* String(value).replace(/[^\d.-]/g, '')
Cleaned(str) == SelectSeq(str, LAMBDA c : c \in Digits \cup {".", "-"})

parseNumeric(value) ==
  IF value.t \in {"null", "undefined"} \/ value = Str(NA) \/ value = Str(<<>>)
  THEN Null
  ELSE IF IsNumber(value) THEN value
  ELSE NullIfNaN(parseFloat(Cleaned(value.s)))

safeDivide(numerator, denominator) ==
  IF numerator = Null \/ denominator = Null \/ IsZero(denominator)
  THEN Null
  ELSE JsDiv(numerator, denominator)

\* (value - c) / c, the shape shared by the centred oscillators
Centred(value, c) == JsDiv(JsSub(value, c), c)

normalizeRSI(rsi) ==
  LET value == parseNumeric(rsi)
  IN IF value = Null THEN Null ELSE Centred(value, Int2Num(50))

normalizeStochastic(stochastic) ==
  LET value == parseNumeric(stochastic)
  IN IF value = Null THEN Null ELSE Centred(value, Int2Num(50))

normalizeStochRSI(stochRSI) ==
  LET value == parseNumeric(stochRSI)
  IN IF value = Null THEN Null ELSE Centred(value, Num(1, 2))

\* Williams %R centred like the oscillators of range 0 to 100
normalizeWilliamsR_Minus(williamsR) ==
  LET value == parseNumeric(williamsR)
  IN IF value = Null THEN Null ELSE Centred(value, Int2Num(50))

normalizeWilliamsR(williamsR) ==
  LET value == parseNumeric(williamsR)
  IN IF value = Null THEN Null
     ELSE JsDiv(JsAdd(value, Int2Num(50)), Int2Num(50))

normalizeROC(roc) ==
  LET value == parseNumeric(roc)
  IN IF value = Null THEN Null ELSE JsDiv(value, Int2Num(100))

normalizeUltimateOscillator(ultimateOsc) ==
  LET value == parseNumeric(ultimateOsc)
  IN IF value = Null THEN Null ELSE Centred(value, Int2Num(50))

\* MACD divided by the signal itself instead of its absolute value
normalizeMacd_SignedSignal(macd, signal) ==
  LET macdValue == parseNumeric(macd)
      signalValue == parseNumeric(signal)
  IN IF macdValue = Null \/ signalValue = Null \/ IsZero(signalValue)
     THEN Null
     ELSE JsDiv(JsSub(macdValue, signalValue), signalValue)

normalizeMacd(macd, signal) ==
  LET macdValue == parseNumeric(macd)
      signalValue == parseNumeric(signal)
  IN IF macdValue = Null \/ signalValue = Null
        \/ IsZero(MathAbs(signalValue))
     THEN Null
     ELSE JsDiv(JsSub(macdValue, signalValue), MathAbs(signalValue))

\* the gap of the two averages relative to the short one
normalizeMovingAverageTrend_OverShort(shortMA, longMA) ==
  LET short == parseNumeric(shortMA)
      long == parseNumeric(longMA)
  IN IF short = Null \/ long = Null \/ IsZero(long)
     THEN Null
     ELSE JsDiv(JsSub(short, long), short)

normalizeMovingAverageTrend(shortMA, longMA) ==
  LET short == parseNumeric(shortMA)
      long == parseNumeric(longMA)
  IN IF short = Null \/ long = Null \/ IsZero(long)
     THEN Null
     ELSE JsDiv(JsSub(short, long), long)

normalizeBullBearPower(bullBear, atr) ==
  LET bbValue == parseNumeric(bullBear)
      atrValue == parseNumeric(atr)
  IN IF bbValue = Null \/ atrValue = Null \/ IsZero(atrValue)
     THEN Null
     ELSE JsDiv(bbValue, atrValue)

\* atr / close without the check of the price
normalizeATR_Unguarded(atr, close) ==
  LET atrValue == parseNumeric(atr)
      closeValue == parseNumeric(close)
  IN IF atrValue = Null \/ closeValue = Null THEN Null
     ELSE JsDiv(atrValue, closeValue)

normalizeATR(atr, close) ==
  LET atrValue == parseNumeric(atr)
      closeValue == parseNumeric(close)
  IN IF atrValue = Null \/ closeValue = Null \/ IsZero(closeValue)
     THEN Null
     ELSE JsDiv(atrValue, closeValue)

normalizeHighsLows(close, high14, low14) ==
  LET closeValue == parseNumeric(close)
      highValue == parseNumeric(high14)
      lowValue == parseNumeric(low14)
  IN IF closeValue = Null \/ highValue = Null \/ lowValue = Null
        \/ IsZero(JsSub(highValue, lowValue))
     THEN Null
     ELSE JsDiv(JsSub(closeValue, lowValue), JsSub(highValue, lowValue))

normalizeADX(adx) ==
  LET value == parseNumeric(adx)
  IN IF value = Null THEN Null ELSE Centred(value, Int2Num(25))

normalizeCCI(cci) ==
  LET value == parseNumeric(cci)
  IN IF value = Null THEN Null ELSE JsDiv(value, Int2Num(200))

\* (close - pivot) / (r1 - s1) without the check of the range
normalizePivotGeneric_Unguarded(close, pivot, r1, s1) ==
  LET closeValue == parseNumeric(close)
      pivotValue == parseNumeric(pivot)
      r1Value == parseNumeric(r1)
      s1Value == parseNumeric(s1)
  IN IF closeValue = Null \/ pivotValue = Null \/ r1Value = Null
        \/ s1Value = Null
     THEN Null
     ELSE JsDiv(JsSub(closeValue, pivotValue), JsSub(r1Value, s1Value))

normalizePivotGeneric(close, pivot, r1, s1) ==
  LET closeValue == parseNumeric(close)
      pivotValue == parseNumeric(pivot)
      r1Value == parseNumeric(r1)
      s1Value == parseNumeric(s1)
  IN IF closeValue = Null \/ pivotValue = Null \/ r1Value = Null
        \/ s1Value = Null \/ IsZero(JsSub(r1Value, s1Value))
     THEN Null
     ELSE JsDiv(JsSub(closeValue, pivotValue), JsSub(r1Value, s1Value))

normalizePivotClassic(close, pivot, r1, s1) ==
  normalizePivotGeneric(close, pivot, r1, s1)
normalizePivotFibonacci(close, fibPivot, fibR1, fibS1) ==
  normalizePivotGeneric(close, fibPivot, fibR1, fibS1)
normalizePivotCamarilla(close, camPivot, camR1, camS1) ==
  normalizePivotGeneric(close, camPivot, camR1, camS1)
normalizePivotWoodie(close, woodiePivot, woodieR1, woodieS1) ==
  normalizePivotGeneric(close, woodiePivot, woodieR1, woodieS1)
normalizePivotDeMark(close, demarkPivot, demarkR1, demarkS1) ==
  normalizePivotGeneric(close, demarkPivot, demarkR1, demarkS1)

\* global isNaN(v) for the values a score list can hold
GlobalIsNaN(v) == v.t \in {"nan", "undefined"}

\* values.reduce((sum, val) => sum + val, 0)
RECURSIVE SumSeq(_)
SumSeq(vs) ==
  IF vs = <<>> THEN Zero
  ELSE JsAdd(SumSeq(SubSeq(vs, 1, Len(vs) - 1)), vs[Len(vs)])

ValidValue(v) == v # Null /\ ~GlobalIsNaN(v)

\* the sum of the valid values over the length of the whole list
calculateAverage_CountAll(values) ==
  LET validValues == SelectSeq(values, ValidValue)
  IN IF Len(validValues) = 0 THEN Null
     ELSE JsDiv(SumSeq(validValues), Int2Num(Len(values)))

\* 0 instead of null for a list without valid values
calculateAverage_ZeroWhenEmpty(values) ==
  LET validValues == SelectSeq(values, ValidValue)
  IN IF Len(validValues) = 0 THEN Zero
     ELSE JsDiv(SumSeq(validValues), Int2Num(Len(validValues)))

calculateAverage(values) ==
  LET validValues == SelectSeq(values, ValidValue)
  IN IF Len(validValues) = 0 THEN Null
     ELSE JsDiv(SumSeq(validValues), Int2Num(Len(validValues)))

calculateMomentumScore(rsi, stochastic, stochRSI, williamsR, roc, ultimateOsc) ==
  calculateAverage(<<normalizeRSI(rsi), normalizeStochastic(stochastic),
                     normalizeStochRSI(stochRSI), normalizeWilliamsR(williamsR),
                     normalizeROC(roc), normalizeUltimateOscillator(ultimateOsc)>>)

calculateTrendScore(trendValues) == calculateAverage(trendValues)

calculateVolatilityScore(atrNorm, highsLowsNorm) ==
  calculateAverage(<<atrNorm, highsLowsNorm>>)

calculateStrengthScore(adxNorm, cciNorm) ==
  calculateAverage(<<adxNorm, cciNorm>>)

calculateSupportResistanceScore(pivotValues) == calculateAverage(pivotValues)

\* a missing category counted as the score 0
ZeroIfNull(v) == IF v = Null THEN Zero ELSE v

weights ==
  [momentum |-> Num(25, 100), trend |-> Num(30, 100),
   volatility |-> Num(15, 100), strength |-> Num(20, 100),
   supportResistance |-> Num(10, 100)]

\* sum / (sum of the weights of the categories present)
calculateOverallScore_Renormalized(momentumScore, trendScore, volatilityScore, strengthScore, supportResistanceScore) ==
  LET w(score, wt) == IF score # Null THEN <<wt>> ELSE <<>>
      present == w(momentumScore, weights.momentum)
                 \o w(trendScore, weights.trend)
                 \o w(volatilityScore, weights.volatility)
                 \o w(strengthScore, weights.strength)
                 \o w(supportResistanceScore, weights.supportResistance)
      weighted == [i \in 1 .. 5 |->
                     JsMul(ZeroIfNull(<<momentumScore, trendScore,
                                        volatilityScore, strengthScore,
                                        supportResistanceScore>>[i]),
                           <<weights.momentum, weights.trend,
                             weights.volatility, weights.strength,
                             weights.supportResistance>>[i])]
  IN IF Len(present) = 0 THEN Null
     ELSE JsDiv(SumSeq(weighted), SumSeq(present))

calculateOverallScore(momentumScore, trendScore, volatilityScore, strengthScore, supportResistanceScore) ==
  LET weightedScores ==
        (IF momentumScore # Null
         THEN <<JsMul(momentumScore, weights.momentum)>> ELSE <<>>)
        \o (IF trendScore # Null
            THEN <<JsMul(trendScore, weights.trend)>> ELSE <<>>)
        \o (IF volatilityScore # Null
            THEN <<JsMul(volatilityScore, weights.volatility)>> ELSE <<>>)
        \o (IF strengthScore # Null
            THEN <<JsMul(strengthScore, weights.strength)>> ELSE <<>>)
        \o (IF supportResistanceScore # Null
            THEN <<JsMul(supportResistanceScore, weights.supportResistance)>>
            ELSE <<>>)
  IN IF Len(weightedScores) = 0 THEN Null ELSE SumSeq(weightedScores)

\* ------------------------------------------------------------------------
\* DataParser
\* ------------------------------------------------------------------------

\* header label -> field name (this.columnMapping)

columnMapping ==
  ("Ticker" :> "ticker") @@
  ("Company_Name" :> "company_name") @@
  ("TI_Summary" :> "ti_summary") @@
  ("TI_Buy_Count" :> "ti_buy_count") @@
  ("TI_Neutral_Count" :> "ti_neutral_count") @@
  ("TI_Sell_Count" :> "ti_sell_count") @@
  ("MA_Summary" :> "ma_summary") @@
  ("MA_Buy_Count" :> "ma_buy_count") @@
  ("MA_Sell_Count" :> "ma_sell_count") @@
  ("RSI_Value" :> "rsi_value") @@
  ("RSI_Action" :> "rsi_action") @@
  ("Stochastic_Value" :> "stochastic_value") @@
  ("Stochastic_Action" :> "stochastic_action") @@
  ("StochRSI_Value" :> "stochrsi_value") @@
  ("StochRSI_Action" :> "stochrsi_action") @@
  ("Williams_R_Value" :> "williams_r_value") @@
  ("Williams_R_Action" :> "williams_r_action") @@
  ("ROC_Value" :> "roc_value") @@
  ("ROC_Action" :> "roc_action") @@
  ("Ultimate_Oscillator_Value" :> "ultimate_oscillator_value") @@
  ("Ultimate_Oscillator_Action" :> "ultimate_oscillator_action") @@
  ("MACD_Value" :> "macd_value") @@
  ("MACD_Action" :> "macd_action") @@
  ("MACD_Signal" :> "macd_signal") @@
  ("Bull_Bear_Power_Value" :> "bull_bear_power_value") @@
  ("Bull_Bear_Power_Action" :> "bull_bear_power_action") @@
  ("ADX_Value" :> "adx_value") @@
  ("ADX_Action" :> "adx_action") @@
  ("CCI_Value" :> "cci_value") @@
  ("CCI_Action" :> "cci_action") @@
  ("MA5_Simple_Value" :> "ma5_simple_value") @@
  ("MA5_Simple_Action" :> "ma5_simple_action") @@
  ("MA5_Exp_Value" :> "ma5_exp_value") @@
  ("MA5_Exp_Action" :> "ma5_exp_action") @@
  ("MA10_Simple_Value" :> "ma10_simple_value") @@
  ("MA10_Simple_Action" :> "ma10_simple_action") @@
  ("MA10_Exp_Value" :> "ma10_exp_value") @@
  ("MA10_Exp_Action" :> "ma10_exp_action") @@
  ("MA20_Simple_Value" :> "ma20_simple_value") @@
  ("MA20_Simple_Action" :> "ma20_simple_action") @@
  ("MA20_Exp_Value" :> "ma20_exp_value") @@
  ("MA20_Exp_Action" :> "ma20_exp_action") @@
  ("MA50_Simple_Value" :> "ma50_simple_value") @@
  ("MA50_Simple_Action" :> "ma50_simple_action") @@
  ("MA50_Exp_Value" :> "ma50_exp_value") @@
  ("MA50_Exp_Action" :> "ma50_exp_action") @@
  ("MA100_Simple_Value" :> "ma100_simple_value") @@
  ("MA100_Simple_Action" :> "ma100_simple_action") @@
  ("MA100_Exp_Value" :> "ma100_exp_value") @@
  ("MA100_Exp_Action" :> "ma100_exp_action") @@
  ("MA200_Simple_Value" :> "ma200_simple_value") @@
  ("MA200_Simple_Action" :> "ma200_simple_action") @@
  ("MA200_Exp_Value" :> "ma200_exp_value") @@
  ("MA200_Exp_Action" :> "ma200_exp_action") @@
  ("Classic_S3" :> "classic_s3") @@
  ("Classic_S2" :> "classic_s2") @@
  ("Classic_S1" :> "classic_s1") @@
  ("Classic_Pivot" :> "classic_pivot") @@
  ("Classic_R1" :> "classic_r1") @@
  ("Classic_R2" :> "classic_r2") @@
  ("Classic_R3" :> "classic_r3") @@
  ("Fibonacci_S3" :> "fibonacci_s3") @@
  ("Fibonacci_S2" :> "fibonacci_s2") @@
  ("Fibonacci_S1" :> "fibonacci_s1") @@
  ("Fibonacci_Pivot" :> "fibonacci_pivot") @@
  ("Fibonacci_R1" :> "fibonacci_r1") @@
  ("Fibonacci_R2" :> "fibonacci_r2") @@
  ("Fibonacci_R3" :> "fibonacci_r3") @@
  ("Camarilla_S3" :> "camarilla_s3") @@
  ("Camarilla_S2" :> "camarilla_s2") @@
  ("Camarilla_S1" :> "camarilla_s1") @@
  ("Camarilla_Pivot" :> "camarilla_pivot") @@
  ("Camarilla_R1" :> "camarilla_r1") @@
  ("Camarilla_R2" :> "camarilla_r2") @@
  ("Camarilla_R3" :> "camarilla_r3") @@
  ("Woodie_S3" :> "woodie_s3") @@
  ("Woodie_S2" :> "woodie_s2") @@
  ("Woodie_S1" :> "woodie_s1") @@
  ("Woodie_Pivot" :> "woodie_pivot") @@
  ("Woodie_R1" :> "woodie_r1") @@
  ("Woodie_R2" :> "woodie_r2") @@
  ("Woodie_R3" :> "woodie_r3") @@
  ("DeMark_S1" :> "demark_s1") @@
  ("DeMark_Pivot" :> "demark_pivot") @@
  ("DeMark_R1" :> "demark_r1")

\* the fields rowToKpiData initialises, fetch_date and fetch_time first

KpiFields ==
  {"fetch_date", "fetch_time", "ticker", "company_name", "ti_summary",
    "ti_buy_count", "ti_neutral_count", "ti_sell_count", "ma_summary",
    "ma_buy_count", "ma_sell_count", "rsi_value", "rsi_action",
    "stochastic_value", "stochastic_action", "stochrsi_value",
    "stochrsi_action", "williams_r_value", "williams_r_action",
    "roc_value", "roc_action", "ultimate_oscillator_value",
    "ultimate_oscillator_action", "macd_value", "macd_action",
    "macd_signal", "adx_value", "adx_action", "cci_value", "cci_action",
    "bull_bear_power_value", "bull_bear_power_action", "atr_value",
    "atr_action", "highs_lows_value", "highs_lows_action",
    "ma5_simple_value", "ma5_simple_action", "ma5_exp_value",
    "ma5_exp_action", "ma10_simple_value", "ma10_simple_action",
    "ma10_exp_value", "ma10_exp_action", "ma20_simple_value",
    "ma20_simple_action", "ma20_exp_value", "ma20_exp_action",
    "ma50_simple_value", "ma50_simple_action", "ma50_exp_value",
    "ma50_exp_action", "ma100_simple_value", "ma100_simple_action",
    "ma100_exp_value", "ma100_exp_action", "ma200_simple_value",
    "ma200_simple_action", "ma200_exp_value", "ma200_exp_action",
    "classic_s3", "classic_s2", "classic_s1", "classic_pivot",
    "classic_r1", "classic_r2", "classic_r3", "fibonacci_s3",
    "fibonacci_s2", "fibonacci_s1", "fibonacci_pivot", "fibonacci_r1",
    "fibonacci_r2", "fibonacci_r3", "camarilla_s3", "camarilla_s2",
    "camarilla_s1", "camarilla_pivot", "camarilla_r1", "camarilla_r2",
    "camarilla_r3", "woodie_s3", "woodie_s2", "woodie_s1", "woodie_pivot",
    "woodie_r1", "woodie_r2", "woodie_r3", "demark_s1", "demark_pivot",
    "demark_r1", "current_price", "high_14", "low_14"}

\* the field names that contain _count, _value, _s1.._s3, _r1.._r3 or _pivot

NumericPatternFields ==
  {"ti_buy_count", "ti_neutral_count", "ti_sell_count", "ma_buy_count",
    "ma_sell_count", "rsi_value", "stochastic_value", "stochrsi_value",
    "williams_r_value", "roc_value", "ultimate_oscillator_value",
    "macd_value", "adx_value", "cci_value", "bull_bear_power_value",
    "atr_value", "highs_lows_value", "ma5_simple_value", "ma5_exp_value",
    "ma10_simple_value", "ma10_exp_value", "ma20_simple_value",
    "ma20_exp_value", "ma50_simple_value", "ma50_exp_value",
    "ma100_simple_value", "ma100_exp_value", "ma200_simple_value",
    "ma200_exp_value", "classic_s3", "classic_s2", "classic_s1",
    "classic_pivot", "classic_r1", "classic_r2", "classic_r3",
    "fibonacci_s3", "fibonacci_s2", "fibonacci_s1", "fibonacci_pivot",
    "fibonacci_r1", "fibonacci_r2", "fibonacci_r3", "camarilla_s3",
    "camarilla_s2", "camarilla_s1", "camarilla_pivot", "camarilla_r1",
    "camarilla_r2", "camarilla_r3", "woodie_s3", "woodie_s2", "woodie_s1",
    "woodie_pivot", "woodie_r1", "woodie_r2", "woodie_r3", "demark_s1",
    "demark_pivot", "demark_r1"}

\* property names every object inherits from Object.prototype; looking one of
\* them up in this.columnMapping yields a function, not undefined
InheritedKeys ==
  {"constructor", "toString", "valueOf", "hasOwnProperty", "toLocaleString",
   "isPrototypeOf", "propertyIsEnumerable", "__proto__"}

\* this.columnMapping[header]: the field name, "[function]" for an inherited
\* member, "" for undefined
FunctionValue == "[function]"
LookupColumn(header) ==
  IF header \in DOMAIN columnMapping THEN columnMapping[header]
  ELSE IF header \in InheritedKeys THEN FunctionValue
  ELSE ""

Dash == <<"-">>
MissingCells == {NA, <<>>, Dash}

\* every cell kept as its string, numeric fields included
CellValue_AlwaysString(fieldName, value) ==
  IF value \in MissingCells THEN Null ELSE Str(value)

\* the value stored for one cell (the body of the forEach callback)
CellValue(fieldName, value) ==
  IF value \in MissingCells THEN Null
  ELSE IF fieldName \in NumericPatternFields
       THEN NullIfNaN(parseFloat(value))
       ELSE Str(value)

\* headers.forEach((header, index) => ...) from index i on; threw is set when
\* fieldName.includes is called on a value that is not a string
RECURSIVE MapColumns(_, _, _, _)
MapColumns(hs, r, kpi, i) ==
  IF i > Len(hs) THEN [threw |-> FALSE, kpi |-> kpi]
  ELSE LET fieldName == LookupColumn(hs[i])
       IN IF fieldName # "" /\ i <= Len(r)
          THEN IF fieldName = FunctionValue
               THEN IF r[i] \in MissingCells
                    THEN MapColumns(hs, r, kpi, i + 1)
                    ELSE [threw |-> TRUE, kpi |-> kpi]
               ELSE MapColumns(hs, r,
                      [kpi EXCEPT ![fieldName] = CellValue(fieldName, r[i])],
                      i + 1)
          ELSE MapColumns(hs, r, kpi, i + 1)

\* current_price estimated from the moving averages
EstimatePrice(kpi) ==
  IF ~Truthy(kpi["current_price"])
  THEN [kpi EXCEPT !["current_price"] =
          Or(Or(kpi["ma20_simple_value"], kpi["ma50_simple_value"]),
             kpi["ma200_simple_value"])]
  ELSE kpi

\* macd_signal estimated from macd_value
EstimateSignal(kpi) ==
  IF Truthy(kpi["macd_value"]) /\ ~Truthy(kpi["macd_signal"])
  THEN [kpi EXCEPT !["macd_signal"] = JsMul(kpi["macd_value"], Num(9, 10))]
  ELSE kpi

EmptyKpiData(fetchDate, fetchTime) ==
  [f \in KpiFields |->
     IF f = "fetch_date" THEN fetchDate
     ELSE IF f = "fetch_time" THEN fetchTime ELSE Null]

\* the two estimates, skipped when the forEach threw
Estimates(mapped) ==
  IF mapped.threw THEN mapped
  ELSE [threw |-> FALSE, kpi |-> EstimateSignal(EstimatePrice(mapped.kpi))]

rowToKpiData(hs, r, fetchDate, fetchTime) ==
  Estimates(MapColumns(hs, r, EmptyKpiData(fetchDate, fetchTime), 1))

\* ------------------------------------------------------------------------
\* DataParser.extractPlainText
\* ------------------------------------------------------------------------
\* A cell is null, undefined, a string (kind "string", its characters in str)
\* or an object with the properties text (a string or undefined) and tokens
\* (isArray tells whether it is an array).  A token has a type, text, raw and
\* tokens (hasTokens tells whether the property is set).
ObjectString ==
  <<"[", "o", "b", "j", "e", "c", "t", " ", "O", "b", "j", "e", "c", "t", "]">>

\* s || ''
OrEmpty(v) == IF Truthy(v) THEN v.s ELSE <<>>

\* the object literal { tokens: token.tokens || [], text: token.text }
ChildCell(token) ==
  [kind |-> "object", str |-> <<>>, text |-> token.text,
   tokens |-> IF token.hasTokens THEN token.tokens ELSE <<>>,
   isArray |-> TRUE]

RECURSIVE extractPlainText(_)
RECURSIVE TokenText(_)
RECURSIVE JoinTokens(_)

\* the callback of cell.tokens.map
TokenText(token) ==
  IF token.type \in {"text", "escape", "codespan"} THEN OrEmpty(token.text)
  ELSE IF token.type \in {"link", "strong", "em", "del"}
       THEN extractPlainText(ChildCell(token))
  ELSE IF token.type = "space" THEN <<" ">>
  ELSE IF token.type = "br" THEN <<"\n">>
  ELSE OrEmpty(token.raw)

\* cell.tokens.map(...).join('')
JoinTokens(tokens) ==
  IF tokens = <<>> THEN <<>>
  ELSE TokenText(Head(tokens)) \o JoinTokens(Tail(tokens))

extractPlainText(cell) ==
  IF cell.kind \in {"null", "undefined"} THEN <<>>
  ELSE IF cell.kind = "string" THEN Trim(cell.str)
  ELSE IF cell.text.t = "str" THEN Trim(cell.text.s)
  ELSE IF cell.isArray THEN Trim(JoinTokens(cell.tokens))
  ELSE Trim(ObjectString)

\* ------------------------------------------------------------------------
\* DataParser.parseMarkdownTable
\* ------------------------------------------------------------------------
\* The markdown argument is null, undefined, a string (kind "string", empty
\* or not) or another value (kind "other").  A string carries the block
\* tokens marked.lexer produces for it; a block token has a type, a header
\* (hasHeader tells whether the property is set) and rows.
EmptyTable == [threw |-> FALSE, headers |-> <<>>, rows |-> <<>>]

\* marked.lexer(markdown): the block tokens of a string
lexer(markdown) == markdown.tokens

\* token.type === 'table' && token.header?.length
IsTableWithHeader(token) ==
  token.type = "table" /\ token.hasHeader /\ Len(token.header) > 0

\* row.map((cell) => this.extractPlainText(cell))
CellTexts(cells) == [i \in 1 .. Len(cells) |-> extractPlainText(cells[i])]

\* the headers and rows of a table token
TableOf(token) ==
  [threw |-> FALSE,
   headers |-> CellTexts(token.header),
   rows |-> [i \in 1 .. Len(token.rows) |-> CellTexts(token.rows[i])]]

\* the last table token with header cells instead of the first
parseMarkdownTable_LastTable(markdown) ==
  IF markdown.kind \in {"null", "undefined"}
     \/ (markdown.kind = "string" /\ markdown.empty)
  THEN EmptyTable
  ELSE IF markdown.kind # "string"
       THEN [threw |-> TRUE, headers |-> <<>>, rows |-> <<>>]
  ELSE LET found == {i \in 1 .. Len(lexer(markdown)) :
                       IsTableWithHeader(lexer(markdown)[i])}
       IN IF found = {} THEN EmptyTable
          ELSE TableOf(lexer(markdown)[
                 CHOOSE i \in found : \A j \in found : j <= i])

\* the first table token, whether it has header cells or not
parseMarkdownTable_AnyTable(markdown) ==
  IF markdown.kind \in {"null", "undefined"}
     \/ (markdown.kind = "string" /\ markdown.empty)
  THEN EmptyTable
  ELSE IF markdown.kind # "string"
       THEN [threw |-> TRUE, headers |-> <<>>, rows |-> <<>>]
  ELSE LET found == {i \in 1 .. Len(lexer(markdown)) :
                       lexer(markdown)[i].type = "table"}
       IN IF found = {} THEN EmptyTable
          ELSE TableOf(lexer(markdown)[
                 CHOOSE i \in found : \A j \in found : i <= j])

\* threw is set when marked.lexer is given a value that is not a string
parseMarkdownTable(markdown) ==
  IF markdown.kind \in {"null", "undefined"}
     \/ (markdown.kind = "string" /\ markdown.empty)
  THEN EmptyTable
  ELSE IF markdown.kind # "string"
       THEN [threw |-> TRUE, headers |-> <<>>, rows |-> <<>>]
  ELSE LET found == {i \in 1 .. Len(lexer(markdown)) :
                       IsTableWithHeader(lexer(markdown)[i])}
       IN IF found = {} THEN EmptyTable
          ELSE TableOf(lexer(markdown)[
                 CHOOSE i \in found : \A j \in found : i <= j])

\* ------------------------------------------------------------------------
\* DataParser.parseGrokResponse, validateKpiData, prepareForDatabase
\* ------------------------------------------------------------------------
\* the header label a header text stands for: its pieces joined
RECURSIVE Label(_)
Label(chars) == IF chars = <<>> THEN "" ELSE Head(chars) \o Label(Tail(chars))

\* kpiData => kpiData.ticker
HasTicker(kpi) == Truthy(kpi["ticker"])

\* rows.map(row => this.rowToKpiData(headers, row, fetchDate, fetchTime))
MapRows(hs, rows, fetchDate, fetchTime) ==
  [i \in 1 .. Len(rows) |-> rowToKpiData(hs, rows[i], fetchDate, fetchTime)]

\* the records of the rows without .filter(kpiData => kpiData.ticker)
FilterTicker_KeepAll(mapped) ==
  IF \E i \in 1 .. Len(mapped) : mapped[i].threw THEN <<>>
  ELSE [i \in 1 .. Len(mapped) |-> mapped[i].kpi]

\* the records of the rows; an exception thrown for a row is caught and the
\* empty array returned
FilterTicker(mapped) ==
  IF \E i \in 1 .. Len(mapped) : mapped[i].threw THEN <<>>
  ELSE SelectSeq([i \in 1 .. Len(mapped) |-> mapped[i].kpi], HasTicker)

\* the part of parseGrokResponse after parseMarkdownTable
RecordsOfTable(table, fetchDate, fetchTime) ==
  IF table.threw \/ Len(table.headers) = 0 \/ Len(table.rows) = 0 THEN <<>>
  ELSE FilterTicker(MapRows([i \in 1 .. Len(table.headers) |->
                               Label(table.headers[i])],
                            table.rows, fetchDate, fetchTime))

parseGrokResponse(grokResponse, fetchDate, fetchTime) ==
  RecordsOfTable(parseMarkdownTable(grokResponse.raw), fetchDate, fetchTime)

\* a validation that does not look at fetch_date
validateKpiData_NoDate(kpi) ==
  /\ Truthy(kpi["ticker"])
  /\ Truthy(kpi["fetch_time"])
  /\ \E field \in {"rsi_value", "stochastic_value", "macd_value",
                   "adx_value", "ma20_simple_value", "ma50_simple_value",
                   "ma200_simple_value"} : kpi[field] # Null

\* validation.isValid
validateKpiData(kpi) ==
  /\ Truthy(kpi["ticker"])
  /\ Truthy(kpi["fetch_date"])
  /\ Truthy(kpi["fetch_time"])
  /\ \E field \in {"rsi_value", "stochastic_value", "macd_value",
                   "adx_value", "ma20_simple_value", "ma50_simple_value",
                   "ma200_simple_value"} : kpi[field] # Null

prepareForDatabase(kpiDataArray) == SelectSeq(kpiDataArray, validateKpiData)

\* ------------------------------------------------------------------------
\* normalizeKpiData
\* ------------------------------------------------------------------------
IndicatorFields ==
  {"rsi_normalized", "stochastic_normalized", "stochrsi_normalized",
   "williams_r_normalized", "roc_normalized",
   "ultimate_oscillator_normalized", "macd_normalized",
   "ma_trend_5_10_normalized", "ma_trend_10_20_normalized",
   "ma_trend_20_50_normalized", "ma_trend_20_200_normalized",
   "ma_trend_50_100_normalized", "ma_trend_100_200_normalized",
   "ma_trend_50_200_normalized", "bull_bear_power_normalized",
   "atr_normalized", "highs_lows_normalized", "adx_normalized",
   "cci_normalized", "pivot_classic_normalized",
   "pivot_fibonacci_normalized", "pivot_camarilla_normalized",
   "pivot_woodie_normalized", "pivot_demark_normalized"}

ScoreFields ==
  {"momentum_score", "trend_score", "volatility_score", "strength_score",
   "support_resistance_score", "overall_score"}

NormalizedFields ==
  {"ticker", "fetch_date", "fetch_time"} \cup IndicatorFields \cup ScoreFields

\* const currentPrice = kpiData.current_price || ma20 || ma50
CurrentPriceOf(kpi) ==
  Or(Or(kpi["current_price"], kpi["ma20_simple_value"]),
     kpi["ma50_simple_value"])

\* the per-indicator values of normalizeKpiData
Indicators(kpi) ==
  LET price == CurrentPriceOf(kpi)
      MA(a, b) == normalizeMovingAverageTrend(kpi[a], kpi[b])
  IN [f \in IndicatorFields |->
       CASE f = "rsi_normalized" -> normalizeRSI(kpi["rsi_value"])
         [] f = "stochastic_normalized" ->
              normalizeStochastic(kpi["stochastic_value"])
         [] f = "stochrsi_normalized" ->
              normalizeStochRSI(kpi["stochrsi_value"])
         [] f = "williams_r_normalized" ->
              normalizeWilliamsR(kpi["williams_r_value"])
         [] f = "roc_normalized" -> normalizeROC(kpi["roc_value"])
         [] f = "ultimate_oscillator_normalized" ->
              normalizeUltimateOscillator(kpi["ultimate_oscillator_value"])
         [] f = "macd_normalized" ->
              normalizeMacd(kpi["macd_value"], kpi["macd_signal"])
         [] f = "ma_trend_5_10_normalized" ->
              MA("ma5_simple_value", "ma10_simple_value")
         [] f = "ma_trend_10_20_normalized" ->
              MA("ma10_simple_value", "ma20_simple_value")
         [] f = "ma_trend_20_50_normalized" ->
              MA("ma20_simple_value", "ma50_simple_value")
         [] f = "ma_trend_50_100_normalized" ->
              MA("ma50_simple_value", "ma100_simple_value")
         [] f = "ma_trend_100_200_normalized" ->
              MA("ma100_simple_value", "ma200_simple_value")
         [] f = "ma_trend_20_200_normalized" ->
              MA("ma20_simple_value", "ma200_simple_value")
         [] f = "ma_trend_50_200_normalized" ->
              MA("ma50_simple_value", "ma200_simple_value")
         [] f = "bull_bear_power_normalized" ->
              normalizeBullBearPower(kpi["bull_bear_power_value"],
                                     kpi["atr_value"])
         [] f = "atr_normalized" -> normalizeATR(kpi["atr_value"], price)
         [] f = "highs_lows_normalized" ->
              normalizeHighsLows(price, kpi["high_14"], kpi["low_14"])
         [] f = "adx_normalized" -> normalizeADX(kpi["adx_value"])
         [] f = "cci_normalized" -> normalizeCCI(kpi["cci_value"])
         [] f = "pivot_classic_normalized" ->
              normalizePivotClassic(price, kpi["classic_pivot"],
                                    kpi["classic_r1"], kpi["classic_s1"])
         [] f = "pivot_fibonacci_normalized" ->
              normalizePivotFibonacci(price, kpi["fibonacci_pivot"],
                                      kpi["fibonacci_r1"], kpi["fibonacci_s1"])
         [] f = "pivot_camarilla_normalized" ->
              normalizePivotCamarilla(price, kpi["camarilla_pivot"],
                                      kpi["camarilla_r1"], kpi["camarilla_s1"])
         [] f = "pivot_woodie_normalized" ->
              normalizePivotWoodie(price, kpi["woodie_pivot"],
                                   kpi["woodie_r1"], kpi["woodie_s1"])
         [] f = "pivot_demark_normalized" ->
              normalizePivotDeMark(price, kpi["demark_pivot"],
                                   kpi["demark_r1"], kpi["demark_s1"])]

\* the record normalizeKpiData returns, from the values it has computed
NormalizedRecord(kpi, ind, momentum_score, trend_score, volatility_score, strength_score, support_resistance_score) ==
  [f \in NormalizedFields |->
     CASE f \in {"ticker", "fetch_date", "fetch_time"} -> kpi[f]
       [] f \in IndicatorFields -> ind[f]
       [] f = "momentum_score" -> momentum_score
       [] f = "trend_score" -> trend_score
       [] f = "volatility_score" -> volatility_score
       [] f = "strength_score" -> strength_score
       [] f = "support_resistance_score" -> support_resistance_score
       [] f = "overall_score" ->
            calculateOverallScore(momentum_score, trend_score,
              volatility_score, strength_score, support_resistance_score)]

\* the composite scores of normalizeKpiData, from its per-indicator values
CompositeScores(kpi, ind) ==
  NormalizedRecord(kpi, ind,
    calculateMomentumScore(kpi["rsi_value"], kpi["stochastic_value"],
      kpi["stochrsi_value"], kpi["williams_r_value"], kpi["roc_value"],
      kpi["ultimate_oscillator_value"]),
    calculateTrendScore(
      <<ind["macd_normalized"], ind["ma_trend_5_10_normalized"],
        ind["ma_trend_10_20_normalized"], ind["ma_trend_20_50_normalized"],
        ind["ma_trend_50_100_normalized"], ind["ma_trend_100_200_normalized"],
        ind["ma_trend_20_200_normalized"], ind["ma_trend_50_200_normalized"],
        ind["bull_bear_power_normalized"]>>),
    calculateVolatilityScore(ind["atr_normalized"],
                             ind["highs_lows_normalized"]),
    calculateStrengthScore(ind["adx_normalized"], ind["cci_normalized"]),
    calculateSupportResistanceScore(
      <<ind["pivot_classic_normalized"], ind["pivot_fibonacci_normalized"],
        ind["pivot_camarilla_normalized"], ind["pivot_woodie_normalized"],
        ind["pivot_demark_normalized"]>>))

\* this.defaults as the constructor sets it
Defaults ==
  [rsi |-> Int2Num(50), stochastic |-> Int2Num(50), stochrsi |-> Num(1, 2),
   williamsR |-> Int2Num(-50), roc |-> Zero,
   ultimateOscillator |-> Int2Num(50), adx |-> Int2Num(25), cci |-> Zero]

\* new NormalizationCalculator()
NewCalculator == [defaults |-> Defaults]

normalizeKpiData(kpi) == CompositeScores(kpi, Indicators(kpi))

\* a call that keeps a note in the calculator and answers differently once
\* the note is there
normalizeKpiDataOn_Stateful(this, kpiData) ==
  [this |-> [this EXCEPT !.defaults.roc = Int2Num(1)],
   kpiData |-> kpiData,
   result |-> IF this.defaults.roc = Zero THEN normalizeKpiData(kpiData)
              ELSE [normalizeKpiData(kpiData) EXCEPT !["overall_score"] = Null]]

\* a call that stores the price it worked with in the record
normalizeKpiDataOn_StoresPrice(this, kpiData) ==
  [this |-> this,
   kpiData |-> [kpiData EXCEPT !["current_price"] = CurrentPriceOf(kpiData)],
   result |-> normalizeKpiData(kpiData)]

\* calculator.normalizeKpiData(kpiData) as a method call: the calculator and
\* the argument object after the call (the method assigns to no property of
\* either) and the object returned
normalizeKpiDataOn(this, kpiData) ==
  [this |-> this, kpiData |-> kpiData, result |-> normalizeKpiData(kpiData)]

\* ------------------------------------------------------------------------
\* DatabaseManager: the tables kpi_data and normalization
\* ------------------------------------------------------------------------
\* the database after createTables; foreign_keys is the setting of the
\* connection (no PRAGMA foreign_keys is issued, so it is the default of the
\* SQLite build)
EmptyDatabase(foreign_keys) ==
  [foreign_keys |-> foreign_keys, kpi_data |-> {}, normalization |-> {},
   kpi_data_seq |-> 0, normalization_seq |-> 0]

\* the rows of kpi_data that hold the values of UNIQUE(ticker, fetch_date,
\* fetch_time) of the record
SameKey(db, data) ==
  {r \in db.kpi_data :
     /\ r.data["ticker"] = data["ticker"]
     /\ r.data["fetch_date"] = data["fetch_date"]
     /\ r.data["fetch_time"] = data["fetch_time"]}

\* INSERT OR REPLACE INTO kpi_data that keeps the id of the row it replaces
insertKpiData_KeepId(db, data) ==
  LET replaced == SameKey(db, data)
      id == IF replaced = {} THEN db.kpi_data_seq + 1
            ELSE (CHOOSE r \in replaced : TRUE).id
  IN [db EXCEPT !.kpi_data = (@ \ replaced) \cup {[id |-> id, data |-> data]},
                !.kpi_data_seq = IF replaced = {} THEN @ + 1 ELSE @]

\* INSERT OR REPLACE INTO kpi_data: the rows with the same unique key are
\* deleted (with foreign keys enforced their normalization rows go with them,
\* ON DELETE CASCADE) and the record is stored under a new AUTOINCREMENT id
insertKpiData(db, data) ==
  LET replaced == {r.id : r \in SameKey(db, data)}
  IN [db EXCEPT
        !.kpi_data = {r \in @ : r.id \notin replaced}
                       \cup {[id |-> db.kpi_data_seq + 1, data |-> data]},
        !.normalization = IF db.foreign_keys
                          THEN {n \in @ : n.kpi_data_id \notin replaced}
                          ELSE @,
        !.kpi_data_seq = @ + 1]

\* this.lastID of the insert into kpi_data
LastKpiDataId(db) == db.kpi_data_seq

\* INSERT OR REPLACE INTO normalization: a row with the same kpi_data_id
\* (UNIQUE) is deleted and the record is stored under a new id
insertNormalization(db, kpiDataId, normalizedData) ==
  [db EXCEPT
     !.normalization = {n \in @ : n.kpi_data_id # kpiDataId}
                         \cup {[id |-> db.normalization_seq + 1,
                                kpi_data_id |-> kpiDataId,
                                data |-> normalizedData]},
     !.normalization_seq = @ + 1]

\* DatabaseManager.calculateAverage: null, undefined and NaN are left out
DatabaseManager_ValidValue(value) ==
  value # Null /\ value # Undefined /\ ~IsNaN(value)

DatabaseManager_calculateAverage(values) ==
  LET validValues == SelectSeq(values, DatabaseManager_ValidValue)
  IN IF Len(validValues) = 0 THEN Null
     ELSE JsDiv(SumSeq(validValues), Int2Num(Len(validValues)))

\* the weights of computeCompositeComponents
DatabaseManager_weights ==
  [momentum |-> Num(25, 100), trend |-> Num(35, 100),
   volatility |-> Num(15, 100), strength |-> Num(15, 100),
   support |-> Num(10, 100)]

\* compositeScore += component * weight for the components that are not
\* null, in the order of the five if statements; contributions counts them
RECURSIVE Contribute(_, _, _, _)
Contribute(components, names, compositeScore, contributions) ==
  IF names = <<>>
  THEN IF contributions > 0 THEN compositeScore ELSE Null
  ELSE IF components[Head(names)] # Null
       THEN Contribute(components, Tail(names),
              JsAdd(compositeScore,
                    JsMul(components[Head(names)],
                          DatabaseManager_weights[Head(names)])),
              contributions + 1)
       ELSE Contribute(components, Tail(names), compositeScore,
                       contributions)

\* the five components and the composite score of given components
Composite(components) ==
  [momentumComponent |-> components.momentum,
   trendComponent |-> components.trend,
   volatilityComponent |-> components.volatility,
   strengthComponent |-> components.strength,
   supportComponent |-> components.support,
   compositeScore |->
     Contribute(components,
                <<"momentum", "trend", "volatility", "strength", "support">>,
                Zero, 0)]

\* the members of the components that do not depend on the variant
MomentumMembers(normalizedData) ==
  <<normalizedData["rsi_normalized"], normalizedData["stochastic_normalized"],
    normalizedData["stochrsi_normalized"],
    normalizedData["williams_r_normalized"],
    normalizedData["roc_normalized"],
    normalizedData["ultimate_oscillator_normalized"]>>

MovingAverageMembers(normalizedData) ==
  <<normalizedData["macd_normalized"],
    normalizedData["ma_trend_5_10_normalized"],
    normalizedData["ma_trend_10_20_normalized"],
    normalizedData["ma_trend_20_50_normalized"],
    normalizedData["ma_trend_50_100_normalized"],
    normalizedData["ma_trend_100_200_normalized"],
    normalizedData["ma_trend_20_200_normalized"],
    normalizedData["ma_trend_50_200_normalized"]>>

PivotMembers(normalizedData) ==
  <<normalizedData["pivot_classic_normalized"],
    normalizedData["pivot_fibonacci_normalized"],
    normalizedData["pivot_camarilla_normalized"],
    normalizedData["pivot_woodie_normalized"],
    normalizedData["pivot_demark_normalized"]>>

\* a trend component that leaves bull_bear_power_normalized out
computeCompositeComponents_NoBullBear(normalizedData) ==
  Composite(
    [momentum |->
       DatabaseManager_calculateAverage(MomentumMembers(normalizedData)),
     trend |->
       DatabaseManager_calculateAverage(MovingAverageMembers(normalizedData)),
     volatility |->
       DatabaseManager_calculateAverage(
         <<normalizedData["atr_normalized"],
           normalizedData["highs_lows_normalized"]>>),
     strength |->
       DatabaseManager_calculateAverage(
         <<normalizedData["adx_normalized"],
           normalizedData["cci_normalized"]>>),
     support |->
       DatabaseManager_calculateAverage(PivotMembers(normalizedData))])

\* DatabaseManager.computeCompositeComponents
computeCompositeComponents(normalizedData) ==
  Composite(
    [momentum |->
       DatabaseManager_calculateAverage(MomentumMembers(normalizedData)),
     trend |->
       DatabaseManager_calculateAverage(
         Append(MovingAverageMembers(normalizedData),
                normalizedData["bull_bear_power_normalized"])),
     volatility |->
       DatabaseManager_calculateAverage(
         <<normalizedData["atr_normalized"],
           normalizedData["highs_lows_normalized"]>>),
     strength |->
       DatabaseManager_calculateAverage(
         <<normalizedData["adx_normalized"],
           normalizedData["cci_normalized"]>>),
     support |->
       DatabaseManager_calculateAverage(PivotMembers(normalizedData))])

\* ------------------------------------------------------------------------
\* NormalizationIntegration.processGrokResponse: its counters
\* ------------------------------------------------------------------------
NoResult ==
  [returned |-> FALSE, processed |-> 0, normalized |-> 0, hasTotal |-> FALSE,
   total |-> 0]

\* no call of processGrokResponse has been made
NoBatch ==
  [calls |-> 0, fetchTime |-> Undefined, total |-> 0, valid |-> <<>>,
   processed |-> 0, normalized |-> 0, kpiDataId |-> 0, attempts |-> <<>>,
   before |-> EmptyDatabase(FALSE), result |-> NoResult]

\* the locals of a call after prepareForDatabase: processedCount and
\* normalizedCount are 0; attempts notes, for each turn of the loop, the
\* record and which of the two inserts resolved
StartBatch(batch, db, fetchTime, kpiDataArray, validKpiData) ==
  [calls |-> batch.calls + 1, fetchTime |-> fetchTime,
   total |-> Len(kpiDataArray), valid |-> validKpiData,
   processed |-> 0, normalized |-> 0, kpiDataId |-> 0, attempts |-> <<>>,
   before |-> db, result |-> NoResult]

\* return { processed: 0, normalized: 0 } for a response without records
ReturnEmpty(batch) ==
  [batch EXCEPT !.result = [returned |-> TRUE, processed |-> 0,
                            normalized |-> 0, hasTotal |-> FALSE,
                            total |-> 0]]

\* insertKpiData resolved with the id: processedCount++
RawInserted(batch, kpiDataId) ==
  [batch EXCEPT !.processed = @ + 1, !.kpiDataId = kpiDataId]

\* insertKpiData rejected: the catch ends the turn
RawFailed(batch, kpiData) ==
  [batch EXCEPT !.attempts =
     Append(@, [kpiData |-> kpiData, raw |-> FALSE, normalization |-> FALSE])]

\* insertNormalization resolved without normalizedCount++
NormalizationInserted_NotCounted(batch, kpiData) ==
  [batch EXCEPT
     !.attempts =
       Append(@, [kpiData |-> kpiData, raw |-> TRUE, normalization |-> TRUE])]

\* insertNormalization resolved: normalizedCount++
NormalizationInserted(batch, kpiData) ==
  [batch EXCEPT
     !.normalized = @ + 1,
     !.attempts =
       Append(@, [kpiData |-> kpiData, raw |-> TRUE, normalization |-> TRUE])]

\* insertNormalization rejected: the catch ends the turn
NormalizationFailed(batch, kpiData) ==
  [batch EXCEPT !.attempts =
     Append(@, [kpiData |-> kpiData, raw |-> TRUE, normalization |-> FALSE])]

\* a loop that gives up the batch at the first record that fails
Remaining_StopAtFailure(validKpiData, failed) ==
  IF failed THEN <<>> ELSE Tail(validKpiData)

\* the records the for loop has still to visit after a turn, whether the
\* turn ended in the catch or not
Remaining(validKpiData, failed) == Tail(validKpiData)

\* return { processed, normalized, total } after the loop
ReturnCounts(batch) ==
  [batch EXCEPT !.result = [returned |-> TRUE, processed |-> batch.processed,
                            normalized |-> batch.normalized,
                            hasTotal |-> TRUE, total |-> batch.total]]

\* ------------------------------------------------------------------------
\* NormalizationIntegration: initialization on first use
\* ------------------------------------------------------------------------
\* An operation is "new" (not started), "initialize" (suspended at await
\* this.db.initialize()), "running" (past the initialization check),
\* "returned" or "thrown".  resolved and rejected count the calls of
\* db.initialize that have settled.
NoOperation == [name |-> "", at |-> "new"]

\* the instance after the constructor, with n operations yet to start
NewIntegration(n) ==
  [isInitialized |-> FALSE, initializeCalls |-> 0, resolved |-> 0,
   rejected |-> 0, ops |-> [o \in 1 .. n |-> NoOperation]]

\* an operation up to its first await: if (!this.isInitialized) await
\* this.initialize(), where initialize returns at once when isInitialized is
\* set and otherwise calls this.db.initialize()
EnterOperation(this, o, name) ==
  IF ~this.isInitialized
  THEN IF this.isInitialized
       THEN [this EXCEPT !.ops[o] = [name |-> name, at |-> "running"]]
       ELSE [this EXCEPT !.initializeCalls = @ + 1,
                         !.ops[o] = [name |-> name, at |-> "initialize"]]
  ELSE [this EXCEPT !.ops[o] = [name |-> name, at |-> "running"]]

\* await this.db.initialize() resolved: this.isInitialized = true
InitializeResolved(this, o) ==
  [this EXCEPT !.isInitialized = TRUE, !.resolved = @ + 1,
               !.ops[o].at = "running"]

\* await this.db.initialize() rejected: the catch rethrows, and the
\* operation rejects with the error
InitializeRejected(this, o) ==
  [this EXCEPT !.rejected = @ + 1, !.ops[o].at = "thrown"]

\* the rest of the operation
OperationReturned(this, o) == [this EXCEPT !.ops[o].at = "returned"]

\* ------------------------------------------------------------------------
\* The dashboard service: loadPrompt
\* ------------------------------------------------------------------------
\* a string of decimal digits with at most one point and at least one digit
IsDecimal(t) ==
  /\ \A i \in 1 .. Len(t) : t[i] \in Digits \cup {"."}
  /\ Cardinality({i \in 1 .. Len(t) : t[i] = "."}) <= 1
  /\ \E i \in 1 .. Len(t) : t[i] \in Digits

\* the strings Number() reads as a decimal number or as Infinity, with an
\* optional sign (exponents and the 0x, 0o and 0b forms are left to NaN;
\* none of the limits of the model is written that way)
IsNumericLiteral(t) ==
  LET body == IF t # <<>> /\ t[1] \in {"+", "-"} THEN Tail(t) ELSE t
  IN body = InfinityLiteral \/ IsDecimal(body)

\* Number(value)
Number(value) ==
  CASE value.t = "null" -> Zero
    [] value.t = "undefined" -> NaN
    [] value.t = "str" ->
         IF Trim(value.s) = <<>> THEN Zero
         ELSE IF IsNumericLiteral(Trim(value.s))
              THEN parseFloat(Trim(value.s))
              ELSE NaN
    [] OTHER -> value

\* Number.isFinite(limitValue) && limitValue > 0
PositiveFinite(limitValue) == IsFinite(limitValue) /\ limitValue.n > 0

\* allRows.slice(0, limitValue) that rounds the limit up
SliceFromStart_Ceiling(allRows, limitValue) ==
  LET whole == limitValue.n \div limitValue.d
      end == IF whole * limitValue.d = limitValue.n THEN whole ELSE whole + 1
  IN SubSeq(allRows, 1, IF end < Len(allRows) THEN end ELSE Len(allRows))

\* allRows.slice(0, limitValue) for a positive finite limitValue: the end is
\* limitValue without its fraction, and at most the length
SliceFromStart(allRows, limitValue) ==
  LET end == limitValue.n \div limitValue.d
  IN SubSeq(allRows, 1, IF end < Len(allRows) THEN end ELSE Len(allRows))

\* the rows loadPrompt puts into the document
LimitedRows(tickerLimit, allRows) ==
  IF Truthy(tickerLimit) /\ tickerLimit # Str(<<"a", "l", "l">>)
  THEN IF PositiveFinite(Number(tickerLimit))
       THEN SliceFromStart(allRows, Number(tickerLimit))
       ELSE allRows
  ELSE allRows

\* loadPrompt(tickerLimit = null) on a dataset of a header line and data
\* lines: the rows of the sheet with their numbers (row1 is the header), and
\* the count and the last row number written into the template
loadPrompt(tickerLimit, dataRaw) ==
  LET limit == IF tickerLimit = Undefined THEN Null ELSE tickerLimit
      rows == LimitedRows(limit, dataRaw.allRows)
  IN [header |-> dataRaw.header,
      sheetRows |-> [index \in 1 .. Len(rows) |->
                       [row |-> index + 1, line |-> rows[index]]],
      tickerCount |-> Len(rows),
      endRow |-> Len(rows) + 1]

\* ------------------------------------------------------------------------
\* The dashboard service: the payload cache
\* ------------------------------------------------------------------------
\* Two services are in the repository: server.js, whose /api/dashboard
\* ignores the limit and keeps one cachedPayload, and the service of
\* ENHANCED_DEPLOYMENT_GUIDE.md, which passes the ticker limit on and keeps
\* cachedPayloads by limit (perLimit).  Both keep one cachedAt.  Time is
\* counted in quarters of an hour: thirty minutes are two of them.
CACHE_TTL_MS == 2

\* normalizeTickerLimit(req.query.limit)
normalizeTickerLimit(value) ==
  IF value.t \in {"undefined", "null"} THEN Null
  ELSE IF value.t = "str" /\ Trim(value.s) = <<>> THEN Null
  ELSE IF value = Str(<<"a", "l", "l">>) THEN Null
  ELSE IF ~PositiveFinite(Number(value)) THEN Null
  ELSE Number(value)

\* sanitizeApiKey: trimmed, and without the characters outside \x21-\x7E
sanitizeApiKey(apiKey) ==
  IF ~Truthy(apiKey) THEN <<>>
  ELSE SelectSeq(Trim(apiKey.s), LAMBDA c : c \notin WhiteSpace)

\* getConfiguredApiKey throws for a key that is not set or that is empty
\* once sanitized
ApiKeyError(apiKey) ==
  IF ~Truthy(apiKey) THEN "Grok API key is not configured"
  ELSE IF sanitizeApiKey(apiKey) = <<>> THEN "Grok API key is invalid"
  ELSE ""

\* const cacheKey = tickerLimit || 'all'; server.js has the one cachedPayload
CacheKey(perLimit, tickerLimit) ==
  IF perLimit THEN Or(tickerLimit, Str(<<"a", "l", "l">>))
  ELSE Str(<<"a", "l", "l">>)

\* the limit loadPrompt is called with: loadPrompt() of server.js takes none
PromptLimit(perLimit, tickerLimit) == IF perLimit THEN tickerLimit ELSE Null

NoResponse ==
  [kind |-> "none", cached |-> FALSE, payload |-> Null, tickerLimit |-> Null,
   skipCache |-> FALSE, at |-> 0, error |-> "", servable |-> FALSE]

NoPrompt == [tickerLimit |-> Null, dataRaw |-> Null, prompt |-> Null]

\* the service after start: cachedPayload = null (an empty Map), cachedAt = 0.
\* fetched notes the payload of the last response with content, by key;
\* failedSince counts the failed requests since that response.
NewServer(perLimit, keys) ==
  [perLimit |-> perLimit, now |-> 0,
   cachedPayloads |-> [k \in keys |-> Null], cachedAt |-> 0,
   inFlight |-> {}, requests |-> 0, fetched |-> [k \in keys |-> Null],
   failedSince |-> 0, response |-> NoResponse, loaded |-> NoPrompt]

\* cachedPayload && Date.now() - cachedAt < CACHE_TTL_MS
CacheIsFresh(server, cacheKey) ==
  /\ server.cachedPayloads[cacheKey] # Null
  /\ server.now - server.cachedAt < CACHE_TTL_MS

\* the request does not ask for a refresh and a payload for its key was
\* fetched less than CACHE_TTL_MS ago
Servable(server, tickerLimit, skipCache) ==
  /\ ~skipCache
  /\ server.fetched[CacheKey(server.perLimit, tickerLimit)] # Null
  /\ server.now
       - server.fetched[CacheKey(server.perLimit, tickerLimit)].fetchedAt
         < CACHE_TTL_MS

\* return { payload: cachedPayload, cached: true }
ServeCached(server, tickerLimit, skipCache) ==
  [server EXCEPT
     !.requests = @ + 1,
     !.response =
       [kind |-> "ok", cached |-> TRUE,
        payload |-> server.cachedPayloads[CacheKey(server.perLimit,
                                                   tickerLimit)],
        tickerLimit |-> tickerLimit, skipCache |-> skipCache,
        at |-> server.now, error |-> "",
        servable |-> Servable(server, tickerLimit, skipCache)]]

\* a request ends with an error that empties the cache as well
RequestFailed_ClearsCache(server, request, error) ==
  [server EXCEPT
     !.cachedPayloads = [k \in DOMAIN @ |-> Null],
     !.cachedAt = 0,
     !.inFlight = @ \ {request},
     !.failedSince = @ + 1,
     !.response =
       [kind |-> "error", cached |-> FALSE, payload |-> Null,
        tickerLimit |-> request.tickerLimit, skipCache |-> request.skipCache,
        at |-> server.now, error |-> error, servable |-> request.servable]]

\* requestDashboardFromGrok throws: nothing is assigned, and the route
\* answers with a status and the message
RequestFailed(server, request, error) ==
  [server EXCEPT
     !.inFlight = @ \ {request},
     !.failedSince = @ + 1,
     !.response =
       [kind |-> "error", cached |-> FALSE, payload |-> Null,
        tickerLimit |-> request.tickerLimit, skipCache |-> request.skipCache,
        at |-> server.now, error |-> error, servable |-> request.servable]]

\* a request that goes to Grok, with the prompt loaded for it
Pending(server, tickerLimit, skipCache, prompt) ==
  [id |-> server.requests + 1, tickerLimit |-> tickerLimit,
   skipCache |-> skipCache, tickerCount |-> prompt.tickerCount,
   servable |-> Servable(server, tickerLimit, skipCache)]

\* requestDashboardFromGrok up to await axios.post: loadPrompt, then
\* getConfiguredApiKey, which may throw
RequestDashboardFromGrok(server, tickerLimit, skipCache, apiKey, dataRaw) ==
  LET request == Pending(server, tickerLimit, skipCache,
                         loadPrompt(PromptLimit(server.perLimit, tickerLimit),
                                    dataRaw))
  IN IF ApiKeyError(apiKey) # ""
     THEN [RequestFailed(server, request, ApiKeyError(apiKey))
             EXCEPT !.requests = @ + 1]
     ELSE [server EXCEPT !.requests = @ + 1, !.inFlight = @ \cup {request}]

\* getDashboardData({ skipCache, tickerLimit }) up to its first await
getDashboardData(server, skipCache, tickerLimit, apiKey, dataRaw) ==
  IF ~skipCache
     /\ CacheIsFresh(server, CacheKey(server.perLimit, tickerLimit))
  THEN ServeCached(server, tickerLimit, skipCache)
  ELSE RequestDashboardFromGrok(server, tickerLimit, skipCache, apiKey,
                                dataRaw)

\* the rest of requestDashboardFromGrok for a response with content: the
\* payload is cached under its key and cachedAt is set
PayloadFetched(server, request) ==
  LET payload == [tickerLimit |-> PromptLimit(server.perLimit,
                                              request.tickerLimit),
                  tickerCount |-> request.tickerCount,
                  fetchedAt |-> server.now]
  IN [server EXCEPT
        !.inFlight = @ \ {request},
        !.cachedPayloads[CacheKey(server.perLimit, request.tickerLimit)] =
          payload,
        !.cachedAt = server.now,
        !.fetched[CacheKey(server.perLimit, request.tickerLimit)] = payload,
        !.failedSince = 0,
        !.response = [kind |-> "ok", cached |-> FALSE, payload |-> payload,
                      tickerLimit |-> request.tickerLimit,
                      skipCache |-> request.skipCache, at |-> server.now,
                      error |-> "", servable |-> request.servable]]

\* ------------------------------------------------------------------------
\* Inputs
\* ------------------------------------------------------------------------
\* how many cells of a row differ from the layout's base row
MaxVary == 2
\* how many trailing cells a row may lack
MaxCut == 1

cAAPL == <<"A", "A", "P", "L">>
cBuy == <<"B", "u", "y">>
c0 == <<"0">>
c50 == <<"5", "0">>
cNeg20 == <<"-", "2", "0">>
c2p5 == <<"2", ".", "5">>
cAbc == <<"a", "b", "c">>
c12abc == <<"1", "2", "a", "b", "c">>
c1e2 == <<"1", "e", "2">>

CellSamples ==
  {NA, <<>>, Dash, c0, c50, cNeg20, c2p5, cAbc, c12abc, c1e2,
   InfinityLiteral}

\* header rows with a base data row each
Layouts ==
  {[headers |-> <<"Ticker", "RSI_Value", "RSI_Action">>,
    base |-> <<cAAPL, c50, cBuy>>],
   [headers |-> <<"RSI_Value", "Stochastic_Value", "StochRSI_Value",
                  "Williams_R_Value", "ROC_Value",
                  "Ultimate_Oscillator_Value">>,
    base |-> <<c50, c2p5, c0, cNeg20, c2p5, c50>>],
   [headers |-> <<"Ticker", "MACD_Value", "MACD_Signal", "RSI_Value",
                  "ADX_Value">>,
    base |-> <<cAAPL, c2p5, NA, c50, NA>>],
   [headers |-> <<"MA20_Simple_Value", "MA50_Simple_Value",
                  "MA200_Simple_Value", "Classic_Pivot", "Classic_R1",
                  "Classic_S1">>,
    base |-> <<NA, c50, c50, c0, c50, c2p5>>],
   [headers |-> <<"Ticker", "Notes", "toString", "TI_Buy_Count">>,
    base |-> <<cAAPL, cAbc, NA, c0>>],
   [headers |-> <<"MACD_Value", "RSI_Value">>,
    base |-> <<cNeg20, c50>>]}

\* the rows of a layout: the base row with at most MaxVary cells replaced and
\* at most MaxCut trailing cells missing
RowsOf(layout) ==
  LET n == Len(layout.base)
      Sets == {S \in SUBSET (1 .. n) : Cardinality(S) <= MaxVary}
      Full == UNION {{[i \in 1 .. n |->
                         IF i \in S THEN f[i] ELSE layout.base[i]] :
                       f \in [S -> CellSamples]} : S \in Sets}
  IN {SubSeq(r, 1, n - k) : r \in Full, k \in 0 .. MaxCut}

\* records handed to normalizeKpiData without going through a table
\* (test_normalization.js builds one as an object literal): some fields fixed,
\* some ranging over DirectValues, the others null
DirectValues == {Null, Undefined, Zero, Int2Num(2), Int2Num(5)}

PivotGroup(scheme) ==
  [base |-> <<>>,
   vary |-> <<"current_price", scheme \o "_pivot", scheme \o "_r1",
              scheme \o "_s1">>]

DirectGroups ==
  {[base |-> <<<<"atr_value", Int2Num(1)>>, <<"high_14", Int2Num(5)>>,
               <<"low_14", Int2Num(2)>>>>,
    vary |-> <<"current_price", "ma20_simple_value", "ma50_simple_value",
               "ma200_simple_value">>],
   [base |-> <<<<"bull_bear_power_value", Int2Num(2)>>>>,
    vary |-> <<"current_price", "atr_value", "high_14", "low_14">>],
   [base |-> <<>>,
    vary |-> <<"macd_value", "macd_signal", "bull_bear_power_value",
               "atr_value">>],
   [base |-> <<>>,
    vary |-> <<"ma5_simple_value", "ma10_simple_value", "ma20_simple_value",
               "ma50_simple_value">>],
   [base |-> <<>>,
    vary |-> <<"ma20_simple_value", "ma50_simple_value",
               "ma100_simple_value", "ma200_simple_value">>],
   [base |-> <<<<"ma5_simple_value", Int2Num(5)>>,
               <<"ma10_simple_value", Int2Num(2)>>,
               <<"ma20_simple_value", Int2Num(5)>>>>,
    vary |-> <<"ma50_simple_value", "ma100_simple_value",
               "ma200_simple_value">>],
   [base |-> <<>>,
    vary |-> <<"rsi_value", "stochastic_value", "stochrsi_value",
               "adx_value">>],
   [base |-> <<>>,
    vary |-> <<"williams_r_value", "roc_value", "ultimate_oscillator_value",
               "cci_value">>],
   [base |-> <<<<"ma10_simple_value", Int2Num(2)>>,
               <<"classic_r1", Int2Num(5)>>, <<"classic_s1", Int2Num(2)>>,
               <<"current_price", Int2Num(2)>>>>,
    vary |-> <<"rsi_value", "ma5_simple_value", "adx_value", "atr_value",
               "classic_pivot">>]}
  \cup {PivotGroup(sch) :
          sch \in {"classic", "fibonacci", "camarilla", "woodie", "demark"}}

FetchDate == Str(<<"2", "0", "2", "5", "-", "0", "9", "-", "2", "6">>)
FetchTime == Str(<<"2", "0", "2", "5", "-", "0", "9", "-", "2", "6", "T">>)

RECURSIVE Override(_, _)
Override(kpi, pairs) ==
  IF pairs = <<>> THEN kpi
  ELSE Override([kpi EXCEPT ![Head(pairs)[1]] = Head(pairs)[2]], Tail(pairs))

RecordsOf(group) ==
  LET base == Override([EmptyKpiData(FetchDate, FetchTime)
                          EXCEPT !["ticker"] = Str(cAAPL)], group.base)
  IN {Override(base, [i \in 1 .. Len(group.vary) |->
                        <<group.vary[i], f[i]>>]) :
        f \in [1 .. Len(group.vary) -> DirectValues]}

\* inline tokens as marked produces them for the cells of a table
Token(type, raw, text, tokens, hasTokens) ==
  [type |-> type, raw |-> Str(raw), text |-> text, tokens |-> tokens,
   hasTokens |-> hasTokens]

tkA == Token("text", <<"A">>, Str(<<"A">>), <<>>, FALSE)
tkB == Token("text", <<"B">>, Str(<<"B">>), <<>>, FALSE)
tkBlank == Token("text", <<" ">>, Str(<<" ">>), <<>>, FALSE)
tkEscape == Token("escape", <<"\\", "*">>, Str(<<"*">>), <<>>, FALSE)
\* the grave accent that delimits a code span (one character)
Grave == "grave"

tkCode ==
  Token("codespan", <<Grave, "x", Grave>>, Str(<<"x">>), <<>>, FALSE)
tkEm == Token("em", <<"_", "B", "_">>, Str(<<"B">>), <<tkB>>, TRUE)
tkStrong ==
  Token("strong", <<"*", "*", "A", "*", "*">>, Str(<<"A">>), <<tkA>>, TRUE)
tkStrongEm ==
  Token("strong", <<"*", "*", "_", "B", "_", "*", "*">>,
        Str(<<"_", "B", "_">>), <<tkEm>>, TRUE)
tkDel == Token("del", <<"~", "~", "A", "~", "~">>, Str(<<"A">>), <<tkA>>, TRUE)
tkLink ==
  Token("link", <<"[", "A", "]", "(", "u", ")">>, Str(<<"A">>), <<tkA>>, TRUE)
tkBr == Token("br", <<"\\", "\n">>, Undefined, <<>>, FALSE)
tkSpace == Token("space", <<" ">>, Undefined, <<>>, FALSE)
tkHtml == Token("html", <<"<", "b", ">">>, Str(<<"<", "b", ">">>), <<>>, FALSE)

TokenSamples ==
  {tkA, tkBlank, tkEscape, tkCode, tkEm, tkStrong, tkStrongEm, tkDel, tkLink,
   tkBr, tkSpace, tkHtml}

\* how many inline tokens a cell holds
MaxTokens == 2

TokenLists == UNION {[1 .. n -> TokenSamples] : n \in 0 .. MaxTokens}

RECURSIVE RawOf(_)
RawOf(tokens) ==
  IF tokens = <<>> THEN <<>> ELSE Head(tokens).raw.s \o RawOf(Tail(tokens))

ObjectCell(text, tokens, isArray) ==
  [kind |-> "object", str |-> <<>>, text |-> text, tokens |-> tokens,
   isArray |-> isArray]

\* the cells extractPlainText is given: a table cell of marked carries its
\* source text and its inline tokens; older tokenizers hand over strings
CellInputs ==
  {ObjectCell(Str(RawOf(ts)), ts, TRUE) : ts \in TokenLists}
  \cup {ObjectCell(Undefined, ts, TRUE) : ts \in TokenLists}
  \cup {ObjectCell(Undefined, <<>>, FALSE),
        [kind |-> "null", str |-> <<>>, text |-> Undefined, tokens |-> <<>>,
         isArray |-> FALSE],
        [kind |-> "undefined", str |-> <<>>, text |-> Undefined,
         tokens |-> <<>>, isArray |-> FALSE],
        [kind |-> "string", str |-> <<" ", "A", " ">>, text |-> Undefined,
         tokens |-> <<>>, isArray |-> FALSE]}

\* table cells as marked produces them
clA == ObjectCell(Str(<<"A">>), <<tkA>>, TRUE)
clB == ObjectCell(Str(<<"B">>), <<tkB>>, TRUE)
clBold == ObjectCell(Str(tkStrong.raw.s), <<tkStrong>>, TRUE)
clBlank == ObjectCell(Str(<<" ">>), <<tkBlank>>, TRUE)

Block(type, hasHeader, header, rows) ==
  [type |-> type, hasHeader |-> hasHeader, header |-> header, rows |-> rows]

\* block tokens of a document: a paragraph, a table without header cells, a
\* token of type table without a header property, and tables with one and
\* two header cells
bkParagraph == Block("paragraph", FALSE, <<>>, <<>>)
bkNoHeaderCells == Block("table", TRUE, <<>>, <<<<clA>>>>)
bkNoHeader == Block("table", FALSE, <<>>, <<>>)
bkOneColumn == Block("table", TRUE, <<clA>>, <<<<clB>>, <<clA>>>>)
bkTwoColumns ==
  Block("table", TRUE, <<clBold, clB>>, <<<<clB, clBlank>>, <<clA>>>>)
bkNoRows == Block("table", TRUE, <<clB>>, <<>>)

BlockSamples ==
  {bkParagraph, bkNoHeaderCells, bkNoHeader, bkOneColumn, bkTwoColumns,
   bkNoRows}

\* how many block tokens a document holds
MaxBlocks == 3

Markdown(kind, empty, tokens) ==
  [kind |-> kind, empty |-> empty, tokens |-> tokens]

\* the values parseMarkdownTable is given
MarkdownInputs ==
  {Markdown("null", FALSE, <<>>), Markdown("undefined", FALSE, <<>>),
   Markdown("string", TRUE, <<>>), Markdown("other", FALSE, <<>>)}
  \cup {Markdown("string", FALSE, doc) :
          doc \in UNION {[1 .. n -> BlockSamples] : n \in 0 .. MaxBlocks}}

\* a table cell holding plain text
TextCell(chars) ==
  ObjectCell(Str(chars),
             IF chars = <<>> THEN <<>>
             ELSE <<Token("text", chars, Str(chars), <<>>, FALSE)>>,
             TRUE)

cMSFT == <<"M", "S", "F", "T">>

\* header rows of the tables a response holds, each label one piece of text
GrokHeaders ==
  {<<"Ticker", "RSI_Value">>, <<"RSI_Value", "ADX_Value">>,
   <<"Ticker", "toString">>}

\* data rows of the tables a response holds
GrokRows ==
  {<<cAAPL, c50>>, <<cMSFT, NA>>, <<NA, c50>>, <<<<>>, c2p5>>,
   <<Dash, c0>>, <<<<" ">>, c50>>}

\* how many data rows a table holds
MaxRows == 2

\* the document marked.lexer yields for a response with one table
TableDocument(hs, rows) ==
  Markdown("string", FALSE,
    <<bkParagraph,
      Block("table", TRUE,
            [i \in 1 .. Len(hs) |-> TextCell(<<hs[i]>>)],
            [r \in 1 .. Len(rows) |->
               [i \in 1 .. Len(rows[r]) |-> TextCell(rows[r][i])]])>>)

\* the responses processGrokResponse is given
GrokResponses ==
  {[raw |-> TableDocument(hs, rows)] :
     hs \in GrokHeaders,
     rows \in UNION {[1 .. n -> GrokRows] : n \in 0 .. MaxRows}}
  \cup {[raw |-> Markdown("undefined", FALSE, <<>>)],
        [raw |-> Markdown("other", FALSE, <<>>)],
        [raw |-> Markdown("string", FALSE, <<bkParagraph>>)]}

\* new Date().toISOString() of a later call
LaterFetchTime ==
  Str(<<"2", "0", "2", "5", "-", "0", "9", "-", "2", "6", "T", "1">>)

\* the responses after which a further call of processGrokResponse is
\* followed, and the responses of such further calls
FollowUpResponses ==
  {[raw |-> TableDocument(<<"Ticker", "RSI_Value">>, rows)] :
     rows \in {<<<<cAAPL, c50>>, <<cAAPL, c2p5>>>>,
               <<<<cAAPL, c50>>, <<cMSFT, c2p5>>>>,
               <<<<cMSFT, NA>>, <<cAAPL, c50>>>>}}
  \cup {[raw |-> Markdown("string", FALSE, <<bkParagraph>>)]}

\* how many calls of processGrokResponse in a row are followed
MaxBatches == 2

\* records given to validateKpiData: ticker, fetch_date and fetch_time
\* present or not, and one of several fillings of the indicator fields
ValidationRecords ==
  {Override(EmptyKpiData(date, time), <<<<"ticker", ticker>>>> \o kpis) :
     ticker \in {Null, Str(<<>>), Str(cAAPL)},
     date \in {Null, FetchDate},
     time \in {Undefined, FetchTime},
     kpis \in {<<>>,
               <<<<"rsi_value", Zero>>>>,
               <<<<"ma200_simple_value", Int2Num(2)>>>>,
               <<<<"cci_value", Int2Num(2)>>, <<"current_price", Int2Num(5)>>>>,
               <<<<"macd_value", Undefined>>>>}}

\* arrays given to prepareForDatabase
PreparedArrays ==
  LET some == {r \in ValidationRecords :
                 /\ r["fetch_date"] = FetchDate
                 /\ r["fetch_time"] = FetchTime
                 /\ r["ticker"] # Null
                 /\ r["macd_value"] = Null}
  IN UNION {[1 .. n -> some] : n \in 0 .. MaxRows + 1}

\* the values parseNumeric is called with
NumericInputs ==
  {Null, Undefined, Zero, Int2Num(2), Num(-5, 2), Inf(1), Inf(-1), NaN,
   Str(<<"$", "1", ",", "2", ".", "5">>), Str(<<"5", "0", "%">>),
   Str(<<"1", "-", "2">>)}
  \cup {Str(c) : c \in CellSamples}

\* the calculators of a process and the records given to them repeatedly
Calculators == {"calculator", "other"}

CallRecords ==
  LET base == [EmptyKpiData(FetchDate, FetchTime)
                 EXCEPT !["ticker"] = Str(cAAPL)]
  IN {base,
      Override(base, <<<<"rsi_value", Int2Num(2)>>,
                       <<"ma5_simple_value", Int2Num(5)>>,
                       <<"ma10_simple_value", Int2Num(2)>>>>),
      Override(base, <<<<"ma20_simple_value", Int2Num(2)>>,
                       <<"atr_value", Int2Num(1)>>,
                       <<"adx_value", Str(c50)>>>>)}

\* how many calls of normalizeKpiData are followed
MaxCalls == 3

\* the transforms of one input
SingleInputTransforms ==
  {"normalizeRSI", "normalizeStochastic", "normalizeStochRSI",
   "normalizeWilliamsR", "normalizeROC", "normalizeUltimateOscillator",
   "normalizeADX", "normalizeCCI"}

ApplySingle(fn, v) ==
  CASE fn = "normalizeRSI" -> normalizeRSI(v)
    [] fn = "normalizeStochastic" -> normalizeStochastic(v)
    [] fn = "normalizeStochRSI" -> normalizeStochRSI(v)
    [] fn = "normalizeWilliamsR" -> normalizeWilliamsR(v)
    [] fn = "normalizeROC" -> normalizeROC(v)
    [] fn = "normalizeUltimateOscillator" -> normalizeUltimateOscillator(v)
    [] fn = "normalizeADX" -> normalizeADX(v)
    [] fn = "normalizeCCI" -> normalizeCCI(v)

\* arguments of direct calls of the transforms
ArgValues ==
  {Null, Undefined, Zero, Int2Num(2), Int2Num(-3), Inf(1), NaN, Str(c0)}

Transforms ==
  {"normalizeMacd", "normalizeMovingAverageTrend", "normalizeBullBearPower",
   "normalizeATR", "normalizeHighsLows", "normalizePivotGeneric",
   "normalizePivotClassic", "normalizePivotFibonacci",
   "normalizePivotCamarilla", "normalizePivotWoodie", "normalizePivotDeMark"}

Arity(fn) ==
  CASE fn \in {"normalizeMacd", "normalizeMovingAverageTrend",
               "normalizeBullBearPower", "normalizeATR"} -> 2
    [] fn = "normalizeHighsLows" -> 3
    [] OTHER -> 4

Apply(fn, a) ==
  CASE fn = "normalizeMacd" -> normalizeMacd(a[1], a[2])
    [] fn = "normalizeMovingAverageTrend" ->
         normalizeMovingAverageTrend(a[1], a[2])
    [] fn = "normalizeBullBearPower" -> normalizeBullBearPower(a[1], a[2])
    [] fn = "normalizeATR" -> normalizeATR(a[1], a[2])
    [] fn = "normalizeHighsLows" -> normalizeHighsLows(a[1], a[2], a[3])
    [] fn = "normalizePivotGeneric" ->
         normalizePivotGeneric(a[1], a[2], a[3], a[4])
    [] fn = "normalizePivotClassic" ->
         normalizePivotClassic(a[1], a[2], a[3], a[4])
    [] fn = "normalizePivotFibonacci" ->
         normalizePivotFibonacci(a[1], a[2], a[3], a[4])
    [] fn = "normalizePivotCamarilla" ->
         normalizePivotCamarilla(a[1], a[2], a[3], a[4])
    [] fn = "normalizePivotWoodie" ->
         normalizePivotWoodie(a[1], a[2], a[3], a[4])
    [] fn = "normalizePivotDeMark" ->
         normalizePivotDeMark(a[1], a[2], a[3], a[4])

\* members of the lists calculateAverage is called with
ScoreValues ==
  {Null, NaN, Zero, Num(1, 5), Num(2, 5), Num(-1, 10), Inf(1)}

\* how long a list given to calculateAverage is
MaxLen == 3

ScoreLists == UNION {[1 .. n -> ScoreValues] : n \in 0 .. MaxLen}

\* how many data rows the ticker CSV has at most
MaxTickers == 3

\* the ticker CSV: the header line and n data lines
TickerCsv(n) ==
  [header |-> "Ticker,URL,Company Name",
   allRows |-> [i \in 1 .. n |-> <<"ticker", i>>]]

cAll == <<"a", "l", "l">>
c2 == <<"2">>

\* limits given to loadPrompt
TickerLimits ==
  {Null, Undefined, Str(cAll), Int2Num(1), Int2Num(2), Int2Num(MaxTickers + 2),
   Num(3, 2), Num(1, 2), Zero, Int2Num(-1), NaN, Inf(1), Str(c2), Str(cAbc),
   Str(<<>>)}

c1 == <<"1">>

\* values of the query parameter limit of /api/dashboard
QueryLimits == {Undefined, Str(c1), Str(cAbc)}

\* the keys the cache of the model can hold
CacheKeys == {CacheKey(p, normalizeTickerLimit(l)) : p \in BOOLEAN, l \in QueryLimits}

\* values of the environment variable grok_key
ApiKeys == {Undefined, Str(<<" ", "\n">>), Str(<<"k", "e", "y">>)}

\* what a request to Grok ends with: content, an empty content, or a
\* rejected axios.post (network error, or a status the API answers an invalid
\* key with)
GrokOutcomes == {"content", "empty", "rejected"}

\* the clock stops here
MaxTime == 2
\* how many requests the service gets
MaxRequests == 3

\* the operations of NormalizationIntegration that check isInitialized first
OperationNames ==
  {"processGrokResponse", "getNormalizedData", "getTopPerformers",
   "getTotalRecords"}
\* how many operations are called on the instance
MaxOperations == 3

\* ------------------------------------------------------------------------
\* State
\* ------------------------------------------------------------------------
VARIABLES
  pc,           \* "idle", "record", "normalized", "thrown", "extracted",
                \* "returned", "processing", "inserted", "computed", "done",
                \* "given", "calling"
  source,       \* "none", "row", "direct" or "grok": where kpiData came
                \* from
  headers,      \* the header row given to rowToKpiData
  row,          \* the data row given to rowToKpiData
  kpiData,      \* the raw record
  currentPrice, \* the local currentPrice of normalizeKpiData
  normalized,   \* the record normalizeKpiData returned
  cell,         \* the cell given to extractPlainText
  text,         \* the string extractPlainText returned
  call,         \* a direct call: [fn, args]
  ret,          \* what the call returned
  validKpiData, \* the records processGrokResponse has still to process
  calculators,  \* the NormalizationCalculator instances: their properties
  history,      \* the calls of normalizeKpiData made on them, in order
  db,           \* the tables of the DatabaseManager
  batch,        \* the locals of the current call of processGrokResponse
  integration,  \* a NormalizationIntegration instance and the operations
                \* called on it
  server        \* the dashboard service: its clock, cache and requests

\* the variables of the parsing and normalization pipeline
pipeline ==
  <<pc, source, headers, row, kpiData, currentPrice, normalized, cell, text,
    call, ret, validKpiData, calculators, history, db, batch>>

vars == <<pipeline, integration, server>>

NoRecord == [f \in KpiFields |-> Undefined]
NoNormalized == [f \in NormalizedFields |-> Undefined]
NoCell ==
  [kind |-> "undefined", str |-> <<>>, text |-> Undefined, tokens |-> <<>>,
   isArray |-> FALSE]
NoCall == [fn |-> "", args |-> <<>>]

\* the state after construction; perLimit tells which of the two dashboard
\* services runs
Start(perLimit) ==
  /\ pc = "idle"
  /\ source = "none"
  /\ headers = <<>>
  /\ row = <<>>
  /\ kpiData = NoRecord
  /\ currentPrice = Undefined
  /\ normalized = NoNormalized
  /\ cell = NoCell
  /\ text = <<>>
  /\ call = NoCall
  /\ ret = Undefined
  /\ validKpiData = <<>>
  /\ calculators = [c \in Calculators |-> NewCalculator]
  /\ history = <<>>
  /\ db = EmptyDatabase(FALSE)
  /\ batch = NoBatch
  /\ integration = NewIntegration(MaxOperations)
  /\ server = NewServer(perLimit, CacheKeys)

\* the pipeline and the integration, next to the service of server.js
Init == Start(FALSE)

\* either of the two dashboard services
ServerInit == \E perLimit \in BOOLEAN : Start(perLimit)

\* DataParser.extractPlainText on one table cell
ExtractPlainText ==
  /\ pc = "idle"
  /\ \E c \in CellInputs :
       /\ cell' = c
       /\ text' = extractPlainText(c)
  /\ pc' = "extracted"
  /\ UNCHANGED <<source, headers, row, kpiData, currentPrice, normalized,
                 call, ret,
                 validKpiData,
                 calculators, history,
                 db, batch>>
  /\ UNCHANGED <<integration, server>>

\* DataParser.rowToKpiData on one row of a parsed table
RowToKpiData ==
  /\ pc = "idle"
  /\ \E layout \in Layouts : \E r \in RowsOf(layout) :
       LET res == rowToKpiData(layout.headers, r, FetchDate, FetchTime)
       IN /\ headers' = layout.headers
          /\ row' = r
          /\ kpiData' = IF res.threw THEN NoRecord ELSE res.kpi
          /\ pc' = IF res.threw THEN "thrown" ELSE "record"
  /\ source' = "row"
  /\ UNCHANGED <<currentPrice, normalized, cell, text, call, ret,
                 validKpiData,
                 calculators, history,
                 db, batch>>
  /\ UNCHANGED <<integration, server>>

\* a caller builds the raw record itself
BuildRecord ==
  /\ pc = "idle"
  /\ \E group \in DirectGroups : \E rec \in RecordsOf(group) :
       kpiData' = rec
  /\ pc' = "record"
  /\ source' = "direct"
  /\ UNCHANGED <<headers, row, currentPrice, normalized, cell, text, call,
                 ret,
                 validKpiData,
                 calculators, history,
                 db, batch>>
  /\ UNCHANGED <<integration, server>>

\* NormalizationCalculator.normalizeKpiData on the raw record: called with a
\* record built directly, by processGrokResponse for the record it has just
\* stored (which then goes on with the next record), or as one of a series of
\* calls on some calculator
NormalizeKpiData ==
  /\ pc \in {"record", "inserted", "given"}
  /\ \E c \in (IF pc = "given" THEN Calculators ELSE {"calculator"}) :
       \E after \in {normalizeKpiDataOn(calculators[c], kpiData)} :
         /\ calculators' = [calculators EXCEPT ![c] = after.this]
         /\ kpiData' = after.kpiData
         /\ normalized' = after.result
         /\ history' = IF pc = "given"
                       THEN Append(history,
                              [calculator |-> c, before |-> calculators[c],
                               after |-> after.this, kpiData |-> kpiData,
                               kpiDataAfter |-> after.kpiData,
                               result |-> after.result])
                       ELSE history
  /\ currentPrice' = CurrentPriceOf(kpiData)
  /\ pc' = CASE pc = "record" -> "normalized"
             [] pc = "inserted" -> "computed"
             [] pc = "given" -> "calling"
  /\ UNCHANGED <<source, headers, row, cell, text, call, ret, validKpiData,
                 db, batch>>
  /\ UNCHANGED <<integration, server>>

\* a direct call of calculateAverage
CallCalculateAverage ==
  /\ pc = "idle"
  /\ \E values \in ScoreLists :
       /\ call' = [fn |-> "calculateAverage", args |-> values]
       /\ ret' = calculateAverage(values)
  /\ pc' = "returned"
  /\ UNCHANGED <<source, headers, row, kpiData, currentPrice, normalized,
                 cell, text,
                 validKpiData,
                 calculators, history,
                 db, batch>>
  /\ UNCHANGED <<integration, server>>

\* a direct call of one of the transforms that divide
CallTransform ==
  /\ pc = "idle"
  /\ \E fn \in Transforms : \E a \in [1 .. Arity(fn) -> ArgValues] :
       /\ call' = [fn |-> fn, args |-> a]
       /\ ret' = Apply(fn, a)
  /\ pc' = "returned"
  /\ UNCHANGED <<source, headers, row, kpiData, currentPrice, normalized,
                 cell, text,
                 validKpiData,
                 calculators, history,
                 db, batch>>
  /\ UNCHANGED <<integration, server>>

\* a direct call of one of the transforms of one input
CallSingleInputTransform ==
  /\ pc = "idle"
  /\ \E fn \in SingleInputTransforms : \E v \in NumericInputs :
       /\ call' = [fn |-> fn, args |-> <<v>>]
       /\ ret' = ApplySingle(fn, v)
  /\ pc' = "returned"
  /\ UNCHANGED <<source, headers, row, kpiData, currentPrice, normalized,
                 cell, text, validKpiData, calculators, history,
                 db, batch>>
  /\ UNCHANGED <<integration, server>>

\* a direct call of parseNumeric
CallParseNumeric ==
  /\ pc = "idle"
  /\ \E value \in NumericInputs :
       /\ call' = [fn |-> "parseNumeric", args |-> <<value>>]
       /\ ret' = parseNumeric(value)
  /\ pc' = "returned"
  /\ UNCHANGED <<source, headers, row, kpiData, currentPrice, normalized,
                 cell, text, validKpiData,
                 calculators, history,
                 db, batch>>
  /\ UNCHANGED <<integration, server>>

\* a direct call of validateKpiData
CallValidateKpiData ==
  /\ pc = "idle"
  /\ \E kpi \in ValidationRecords :
       /\ call' = [fn |-> "validateKpiData", args |-> <<kpi>>]
       /\ ret' = [isValid |-> validateKpiData(kpi)]
  /\ pc' = "returned"
  /\ UNCHANGED <<source, headers, row, kpiData, currentPrice, normalized,
                 cell, text, validKpiData, calculators, history, db, batch>>
  /\ UNCHANGED <<integration, server>>

\* a direct call of prepareForDatabase
CallPrepareForDatabase ==
  /\ pc = "idle"
  /\ \E kpiDataArray \in PreparedArrays :
       /\ call' = [fn |-> "prepareForDatabase", args |-> <<kpiDataArray>>]
       /\ ret' = prepareForDatabase(kpiDataArray)
  /\ pc' = "returned"
  /\ UNCHANGED <<source, headers, row, kpiData, currentPrice, normalized,
                 cell, text, validKpiData, calculators, history, db, batch>>
  /\ UNCHANGED <<integration, server>>

\* DataParser.parseMarkdownTable on one document
ParseMarkdownTable ==
  /\ pc = "idle"
  /\ \E markdown \in MarkdownInputs :
       /\ call' = [fn |-> "parseMarkdownTable", args |-> <<markdown>>]
       /\ ret' = parseMarkdownTable(markdown)
  /\ pc' = "returned"
  /\ UNCHANGED <<source, headers, row, kpiData, currentPrice, normalized,
                 cell, text,
                 validKpiData,
                 calculators, history,
                 db, batch>>
  /\ UNCHANGED <<integration, server>>

\* NormalizationIntegration.processGrokResponse up to its for loop: the
\* response is parsed with the time of the call and the records prepared for
\* the database; without records the call returns at once
ProcessGrokResponse ==
  /\ \/ pc = "idle"
     \/ /\ pc = "done"
        /\ batch.calls < MaxBatches
        /\ call.args[1] \in FollowUpResponses
  /\ \E grokResponse \in
          (IF pc = "idle" THEN GrokResponses \cup FollowUpResponses
           ELSE FollowUpResponses) :
       \E fetchTime \in
            (IF pc = "idle" THEN {FetchTime} ELSE {FetchTime, LaterFetchTime}) :
         \E kpiDataArray \in
              {parseGrokResponse(grokResponse, FetchDate, fetchTime)} :
           \E foreign_keys \in BOOLEAN :
             /\ call' = [fn |-> "processGrokResponse",
                         args |-> <<grokResponse>>]
             /\ ret' = kpiDataArray
             /\ db' = IF pc = "idle" THEN EmptyDatabase(foreign_keys) ELSE db
             /\ pc = "done" => foreign_keys = db.foreign_keys
             /\ IF Len(kpiDataArray) = 0
                THEN /\ validKpiData' = <<>>
                     /\ batch' = ReturnEmpty(
                          StartBatch(batch, db', fetchTime, kpiDataArray,
                                     <<>>))
                     /\ pc' = "done"
                ELSE /\ validKpiData' = prepareForDatabase(kpiDataArray)
                     /\ batch' = StartBatch(batch, db', fetchTime,
                                            kpiDataArray, validKpiData')
                     /\ pc' = "processing"
  /\ source' = "grok"
  /\ kpiData' = NoRecord
  /\ normalized' = NoNormalized
  /\ currentPrice' = Undefined
  /\ UNCHANGED <<headers, row, cell, text, calculators, history>>
  /\ UNCHANGED <<integration, server>>

\* one turn of the for loop up to db.insertKpiData(kpiData), which stores the
\* record and resolves with its id, or rejects; the catch ends the turn
InsertKpiData ==
  /\ pc = "processing"
  /\ validKpiData # <<>>
  /\ kpiData' = Head(validKpiData)
  /\ \E stored \in BOOLEAN :
       IF stored
       THEN /\ db' = insertKpiData(db, Head(validKpiData))
            /\ batch' = RawInserted(batch, LastKpiDataId(db'))
            /\ pc' = "inserted"
            /\ UNCHANGED validKpiData
       ELSE /\ batch' = RawFailed(batch, Head(validKpiData))
            /\ validKpiData' = Remaining(validKpiData, TRUE)
            /\ pc' = "processing"
            /\ UNCHANGED db
  /\ UNCHANGED <<source, headers, row, currentPrice, normalized, cell, text,
                 call, ret, calculators, history>>
  /\ UNCHANGED <<integration, server>>

\* the rest of the turn: db.insertNormalization(kpiDataId, normalizedData)
\* stores the normalized record or rejects
InsertNormalization ==
  /\ pc = "computed"
  /\ \E stored \in BOOLEAN :
       IF stored
       THEN /\ db' = insertNormalization(db, batch.kpiDataId, normalized)
            /\ batch' = NormalizationInserted(batch, kpiData)
            /\ validKpiData' = Remaining(validKpiData, FALSE)
       ELSE /\ batch' = NormalizationFailed(batch, kpiData)
            /\ validKpiData' = Remaining(validKpiData, TRUE)
            /\ UNCHANGED db
  /\ pc' = "processing"
  /\ UNCHANGED <<source, headers, row, kpiData, currentPrice, normalized,
                 cell, text, call, ret, calculators, history>>
  /\ UNCHANGED <<integration, server>>

\* the loop is over: processGrokResponse returns its counters
ReturnProcessed ==
  /\ pc = "processing"
  /\ validKpiData = <<>>
  /\ batch' = ReturnCounts(batch)
  /\ pc' = "done"
  /\ UNCHANGED <<source, headers, row, kpiData, currentPrice, normalized,
                 cell, text, call, ret, validKpiData, calculators, history,
                 db>>
  /\ UNCHANGED <<integration, server>>

\* DatabaseManager.computeCompositeComponents on the record normalizeKpiData
\* returned (upsertTickerCompositeScore calls it with the normalized record)
CallComputeCompositeComponents ==
  /\ pc = "normalized"
  /\ call' = [fn |-> "computeCompositeComponents", args |-> <<normalized>>]
  /\ ret' = computeCompositeComponents(normalized)
  /\ pc' = "returned"
  /\ UNCHANGED <<source, headers, row, kpiData, currentPrice, normalized,
                 cell, text, validKpiData, calculators, history, db, batch>>
  /\ UNCHANGED <<integration, server>>

\* a caller holds one of the records it normalizes repeatedly
GiveRecord ==
  /\ pc \in {"idle", "calling"}
  /\ Len(history) < MaxCalls
  /\ \E kpi \in CallRecords : kpiData' = kpi
  /\ pc' = "given"
  /\ UNCHANGED <<source, headers, row, currentPrice, normalized, cell, text,
                 call, ret, validKpiData, calculators, history,
                 db, batch>>
  /\ UNCHANGED <<integration, server>>

\* the caller is done with the result and goes on
NextRecord ==
  /\ pc \in {"normalized", "thrown", "extracted", "returned", "calling",
             "done"}
  /\ pc' = "idle"
  /\ source' = "none"
  /\ headers' = <<>>
  /\ row' = <<>>
  /\ kpiData' = NoRecord
  /\ currentPrice' = Undefined
  /\ normalized' = NoNormalized
  /\ cell' = NoCell
  /\ text' = <<>>
  /\ call' = NoCall
  /\ ret' = Undefined
  /\ validKpiData' = <<>>
  /\ calculators' = [c \in Calculators |-> NewCalculator]
  /\ history' = <<>>
  /\ db' = EmptyDatabase(FALSE)
  /\ batch' = NoBatch
  /\ UNCHANGED <<integration, server>>

Next ==
  \/ ExtractPlainText
  \/ RowToKpiData
  \/ BuildRecord
  \/ NormalizeKpiData
  \/ CallCalculateAverage
  \/ CallTransform
  \/ CallParseNumeric
  \/ CallSingleInputTransform
  \/ CallValidateKpiData
  \/ CallPrepareForDatabase
  \/ ParseMarkdownTable
  \/ ProcessGrokResponse
  \/ InsertKpiData
  \/ InsertNormalization
  \/ ReturnProcessed
  \/ CallComputeCompositeComponents
  \/ GiveRecord
  \/ NextRecord

Spec == Init /\ [][Next]_vars

\* ------------------------------------------------------------------------
\* Operations called on one NormalizationIntegration instance.  Between two
\* awaits an operation runs alone; at an await any other operation may run.
\* ------------------------------------------------------------------------
\* an operation is called and runs up to await this.db.initialize(), or
\* past the check when isInitialized is set
StartOperation ==
  /\ \E o \in 1 .. MaxOperations : \E name \in OperationNames :
       /\ integration.ops[o].at = "new"
       /\ \A before \in 1 .. o - 1 : integration.ops[before].at # "new"
       /\ integration' = EnterOperation(integration, o, name)
  /\ UNCHANGED <<pipeline, server>>

\* db.initialize() of a suspended operation resolves
DbInitializeResolves ==
  /\ \E o \in 1 .. MaxOperations :
       /\ integration.ops[o].at = "initialize"
       /\ integration' = InitializeResolved(integration, o)
  /\ UNCHANGED <<pipeline, server>>

\* db.initialize() of a suspended operation rejects
DbInitializeRejects ==
  /\ \E o \in 1 .. MaxOperations :
       /\ integration.ops[o].at = "initialize"
       /\ integration' = InitializeRejected(integration, o)
  /\ UNCHANGED <<pipeline, server>>

\* an operation past the check completes
OperationReturns ==
  /\ \E o \in 1 .. MaxOperations :
       /\ integration.ops[o].at = "running"
       /\ integration' = OperationReturned(integration, o)
  /\ UNCHANGED <<pipeline, server>>

IntegrationNext ==
  \/ StartOperation
  \/ DbInitializeResolves
  \/ DbInitializeRejects
  \/ OperationReturns

IntegrationSpec == Init /\ [][IntegrationNext]_vars

\* ------------------------------------------------------------------------
\* Requests to the dashboard service.  A request that goes to Grok is
\* suspended at await axios.post; other requests and the clock go on.
\* ------------------------------------------------------------------------
\* GET /api/dashboard?limit=..&refresh=..: served from the cache, failed at
\* the API key, or sent to Grok
GetDashboard ==
  /\ server.loaded = NoPrompt
  /\ server.requests < MaxRequests
  /\ \E limit \in QueryLimits : \E skipCache \in BOOLEAN :
       \E apiKey \in ApiKeys :
         server' = getDashboardData(server, skipCache,
                                    normalizeTickerLimit(limit), apiKey,
                                    TickerCsv(MaxTickers))
  /\ UNCHANGED <<pipeline, integration>>

\* axios.post of a suspended request settles
GrokResponds ==
  /\ \E request \in server.inFlight : \E outcome \in GrokOutcomes :
       server' =
         IF outcome = "content" THEN PayloadFetched(server, request)
         ELSE RequestFailed(server, request,
                            IF outcome = "empty"
                            THEN "No content returned from Grok API"
                            ELSE "Request failed")
  /\ UNCHANGED <<pipeline, integration>>

\* a quarter of an hour passes
Tick ==
  /\ server.loaded = NoPrompt
  /\ server.now < MaxTime
  /\ server' = [server EXCEPT !.now = @ + 1]
  /\ UNCHANGED <<pipeline, integration>>

\* loadPrompt called on its own, as test_ticker_limit.js does in a process of
\* its own
CallLoadPrompt ==
  /\ server.loaded = NoPrompt
  /\ server.requests = 0
  /\ server.now = 0
  /\ \E tickerLimit \in TickerLimits : \E n \in 0 .. MaxTickers :
       server' = [server EXCEPT
                    !.loaded = [tickerLimit |-> tickerLimit,
                                dataRaw |-> TickerCsv(n),
                                prompt |-> loadPrompt(tickerLimit,
                                                      TickerCsv(n))]]
  /\ UNCHANGED <<pipeline, integration>>

ServerNext ==
  \/ GetDashboard
  \/ GrokResponds
  \/ Tick
  \/ CallLoadPrompt

ServerSpec == ServerInit /\ [][ServerNext]_vars

\* ------------------------------------------------------------------------
\* Properties
\* ------------------------------------------------------------------------
CategoryScores ==
  <<"momentum_score", "trend_score", "volatility_score", "strength_score",
    "support_resistance_score">>

\* C1: a record whose momentum and trend scores are non-null and whose
\* volatility, strength and support/resistance scores are null gets the
\* overall score 0.25*momentum + 0.35*trend.
C1_OverallIsQuarterMomentumPlus35Trend ==
  (/\ pc = "normalized"
   /\ normalized["momentum_score"] # Null
   /\ normalized["trend_score"] # Null
   /\ normalized["volatility_score"] = Null
   /\ normalized["strength_score"] = Null
   /\ normalized["support_resistance_score"] = Null)
  => normalized["overall_score"] =
       JsAdd(JsMul(Num(25, 100), normalized["momentum_score"]),
             JsMul(Num(35, 100), normalized["trend_score"]))

\* C4: the overall score is the sum of weight x score over the non-null
\* categories with the weights unchanged, i.e. the weighted sum over all five
\* categories with every missing score replaced by 0, whenever at least one
\* category is present (and null when none is).
C4_NoRenormalization ==
  pc = "normalized" =>
    LET sc(c) == normalized[c]
        present == {i \in 1 .. 5 : sc(CategoryScores[i]) # Null}
    IN IF present = {}
       THEN normalized["overall_score"] = Null
       ELSE normalized["overall_score"] =
              JsAdd(JsAdd(JsAdd(JsAdd(
                JsMul(weights.momentum, ZeroIfNull(sc("momentum_score"))),
                JsMul(weights.trend, ZeroIfNull(sc("trend_score")))),
                JsMul(weights.volatility, ZeroIfNull(sc("volatility_score")))),
                JsMul(weights.strength, ZeroIfNull(sc("strength_score")))),
                JsMul(weights.supportResistance,
                      ZeroIfNull(sc("support_resistance_score"))))

\* a record with two categories present (both non-zero) and one missing has
\* been scored
C4_Witness ==
  /\ pc = "normalized"
  /\ normalized["momentum_score"] \notin {Null, Zero}
  /\ normalized["strength_score"] \notin {Null, Zero}
  /\ normalized["trend_score"] = Null
  /\ normalized["overall_score"] \notin {Null, Zero}


\* the raw fields an indicator is computed from, the price aside
RawInputs(f) ==
  CASE f = "rsi_normalized" -> {"rsi_value"}
    [] f = "stochastic_normalized" -> {"stochastic_value"}
    [] f = "stochrsi_normalized" -> {"stochrsi_value"}
    [] f = "williams_r_normalized" -> {"williams_r_value"}
    [] f = "roc_normalized" -> {"roc_value"}
    [] f = "ultimate_oscillator_normalized" -> {"ultimate_oscillator_value"}
    [] f = "macd_normalized" -> {"macd_value", "macd_signal"}
    [] f = "ma_trend_5_10_normalized" ->
         {"ma5_simple_value", "ma10_simple_value"}
    [] f = "ma_trend_10_20_normalized" ->
         {"ma10_simple_value", "ma20_simple_value"}
    [] f = "ma_trend_20_50_normalized" ->
         {"ma20_simple_value", "ma50_simple_value"}
    [] f = "ma_trend_50_100_normalized" ->
         {"ma50_simple_value", "ma100_simple_value"}
    [] f = "ma_trend_100_200_normalized" ->
         {"ma100_simple_value", "ma200_simple_value"}
    [] f = "ma_trend_20_200_normalized" ->
         {"ma20_simple_value", "ma200_simple_value"}
    [] f = "ma_trend_50_200_normalized" ->
         {"ma50_simple_value", "ma200_simple_value"}
    [] f = "bull_bear_power_normalized" ->
         {"bull_bear_power_value", "atr_value"}
    [] f = "atr_normalized" -> {"atr_value"}
    [] f = "highs_lows_normalized" -> {"high_14", "low_14"}
    [] f = "adx_normalized" -> {"adx_value"}
    [] f = "cci_normalized" -> {"cci_value"}
    [] f = "pivot_classic_normalized" ->
         {"classic_pivot", "classic_r1", "classic_s1"}
    [] f = "pivot_fibonacci_normalized" ->
         {"fibonacci_pivot", "fibonacci_r1", "fibonacci_s1"}
    [] f = "pivot_camarilla_normalized" ->
         {"camarilla_pivot", "camarilla_r1", "camarilla_s1"}
    [] f = "pivot_woodie_normalized" ->
         {"woodie_pivot", "woodie_r1", "woodie_s1"}
    [] f = "pivot_demark_normalized" ->
         {"demark_pivot", "demark_r1", "demark_s1"}

PriceBased ==
  {"atr_normalized", "highs_lows_normalized", "pivot_classic_normalized",
   "pivot_fibonacci_normalized", "pivot_camarilla_normalized",
   "pivot_woodie_normalized", "pivot_demark_normalized"}

\* a raw input counts as null when it holds no number: null, undefined,
\* "N/A", "" or text without a number
Missing(v) == parseNumeric(v) = Null

\* the denominator of an indicator of the record kpi, given the price; 1
\* stands for the constant denominators of the oscillators
Denominator(f, kpi, price) ==
  LET v(name) == parseNumeric(kpi[name])
  IN CASE f = "macd_normalized" -> MathAbs(v("macd_signal"))
       [] f = "ma_trend_5_10_normalized" -> v("ma10_simple_value")
       [] f = "ma_trend_10_20_normalized" -> v("ma20_simple_value")
       [] f = "ma_trend_20_50_normalized" -> v("ma50_simple_value")
       [] f = "ma_trend_50_100_normalized" -> v("ma100_simple_value")
       [] f \in {"ma_trend_100_200_normalized", "ma_trend_20_200_normalized",
                 "ma_trend_50_200_normalized"} -> v("ma200_simple_value")
       [] f = "bull_bear_power_normalized" -> v("atr_value")
       [] f = "atr_normalized" -> parseNumeric(price)
       [] f = "highs_lows_normalized" -> JsSub(v("high_14"), v("low_14"))
       [] f = "pivot_classic_normalized" ->
            JsSub(v("classic_r1"), v("classic_s1"))
       [] f = "pivot_fibonacci_normalized" ->
            JsSub(v("fibonacci_r1"), v("fibonacci_s1"))
       [] f = "pivot_camarilla_normalized" ->
            JsSub(v("camarilla_r1"), v("camarilla_s1"))
       [] f = "pivot_woodie_normalized" ->
            JsSub(v("woodie_r1"), v("woodie_s1"))
       [] f = "pivot_demark_normalized" ->
            JsSub(v("demark_r1"), v("demark_s1"))
       [] OTHER -> Int2Num(1)

\* an indicator of the record kpi lacks an input or has a zero denominator,
\* the price-based ones taking price as their price
NullExpected(f, kpi, price) ==
  \/ \E name \in RawInputs(f) : Missing(kpi[name])
  \/ f \in PriceBased /\ Missing(price)
  \/ IsZero(Denominator(f, kpi, price))

\* C2 as stated: every per-indicator normalized field is null if and only if
\* a required raw input is null or the denominator is zero, the price-based
\* indicators taking the record's current_price as their price.
C2_NullIffInputNullOrZeroDenominator ==
  pc = "normalized" =>
    \A f \in IndicatorFields :
      normalized[f] = Null <=> NullExpected(f, kpiData, kpiData["current_price"])

\* C2 amended: every per-indicator normalized field is null if and only if a
\* required raw input holds no number or the denominator is zero, the
\* price-based indicators taking the price normalizeKpiData works with
\* (current_price or, when that is missing or 0, its moving-average fallback).
C2_NullIffInputNullOrZeroDenominator_EnginePrice ==
  pc = "normalized" =>
    \A f \in IndicatorFields :
      normalized[f] = Null <=> NullExpected(f, kpiData, currentPrice)

\* a record without current_price whose ATR is normalized by the fallback
\* price, next to a pivot indicator that is null for its zero range
C2_Witness ==
  /\ pc = "normalized"
  /\ kpiData["current_price"] = Null
  /\ currentPrice \notin {Null, Undefined, Zero}
  /\ normalized["atr_normalized"] \notin {Null, Zero}
  /\ normalized["highs_lows_normalized"] # Null
  /\ normalized["pivot_classic_normalized"] = Null

\* C3: without an explicit current price the price used for the ATR,
\* Highs/Lows and pivot transforms is the first non-null of ma20_simple_value,
\* ma50_simple_value, ma200_simple_value, both in the record rowToKpiData
\* returns and in normalizeKpiData called on a record whose current_price is
\* null.
C3_PriceIsFirstNonNullMovingAverage ==
  LET FirstNonNull(kpi) ==
        IF ~IsNullish(kpi["ma20_simple_value"]) THEN kpi["ma20_simple_value"]
        ELSE IF ~IsNullish(kpi["ma50_simple_value"])
             THEN kpi["ma50_simple_value"]
        ELSE kpi["ma200_simple_value"]
      Same(a, b) == a = b \/ (IsNullish(a) /\ IsNullish(b))
  IN /\ (pc = "record" /\ source = "row")
          => Same(kpiData["current_price"], FirstNonNull(kpiData))
     /\ (pc = "normalized" /\ IsNullish(kpiData["current_price"]))
          => Same(currentPrice, FirstNonNull(kpiData))

\* the normalized indicators each category score averages
CategoryMembers(c) ==
  CASE c = "momentum_score" ->
         <<"rsi_normalized", "stochastic_normalized", "stochrsi_normalized",
           "williams_r_normalized", "roc_normalized",
           "ultimate_oscillator_normalized">>
    [] c = "trend_score" ->
         <<"macd_normalized", "ma_trend_5_10_normalized",
           "ma_trend_10_20_normalized", "ma_trend_20_50_normalized",
           "ma_trend_50_100_normalized", "ma_trend_100_200_normalized",
           "ma_trend_20_200_normalized", "ma_trend_50_200_normalized",
           "bull_bear_power_normalized">>
    [] c = "volatility_score" ->
         <<"atr_normalized", "highs_lows_normalized">>
    [] c = "strength_score" -> <<"adx_normalized", "cci_normalized">>
    [] c = "support_resistance_score" ->
         <<"pivot_classic_normalized", "pivot_fibonacci_normalized",
           "pivot_camarilla_normalized", "pivot_woodie_normalized",
           "pivot_demark_normalized">>

\* the arithmetic mean of a list, null for the empty list
Mean(vs) ==
  IF vs = <<>> THEN Null ELSE JsDiv(SumSeq(vs), Int2Num(Len(vs)))

C6_NaRsiLeavesMeanOfOtherFive ==
  (/\ pc = "normalized"
   /\ source = "row"
   /\ headers = <<"RSI_Value", "Stochastic_Value", "StochRSI_Value",
                  "Williams_R_Value", "ROC_Value",
                  "Ultimate_Oscillator_Value">>
   /\ Len(row) = 6
   /\ row[1] = NA
   /\ \A i \in 2 .. 6 : IsFinite(parseFloat(row[i])))
  => /\ kpiData["rsi_value"] = Null
     /\ normalized["rsi_normalized"] = Null
     /\ normalized["momentum_score"] =
          JsDiv(JsAdd(JsAdd(JsAdd(JsAdd(
                  normalized["stochastic_normalized"],
                  normalized["stochrsi_normalized"]),
                  normalized["williams_r_normalized"]),
                  normalized["roc_normalized"]),
                  normalized["ultimate_oscillator_normalized"]),
                Int2Num(5))

\* such a row has been scored, and counting RSI as zero would have given
\* another momentum score
C6_Witness ==
  /\ pc = "normalized"
  /\ source = "row"
  /\ Len(row) = 6
  /\ headers[1] = "RSI_Value"
  /\ row[1] = NA
  /\ \A i \in 2 .. 6 : IsFinite(parseFloat(row[i]))
  /\ kpiData["ultimate_oscillator_value"] # Null
  /\ normalized["rsi_normalized"] = Null
  /\ IsFinite(normalized["momentum_score"])
  /\ normalized["momentum_score"] # Zero

C8_NumericFieldsFiniteOrNull ==
  (pc = "record" /\ source = "row") =>
    \A f \in NumericPatternFields \cup {"macd_signal", "current_price"} :
      kpiData[f] = Null \/ IsFinite(kpiData[f])

\* the text of a list of inline tokens read recursively: text, escape and
\* codespan give their text, strong, em, del and link the text of their
\* children, br a newline, space one space, any other token its raw source
RECURSIVE PlainText(_)
PlainText(tokens) ==
  IF tokens = <<>> THEN <<>>
  ELSE LET token == Head(tokens)
       IN (CASE token.type \in {"text", "escape", "codespan"} -> token.text.s
             [] token.type \in {"strong", "em", "del", "link"} ->
                  PlainText(token.tokens)
             [] token.type = "br" -> <<"\n">>
             [] token.type = "space" -> <<" ">>
             [] OTHER -> token.raw.s)
          \o PlainText(Tail(tokens))

\* C9: for every cell with a token list, with or without a raw text string,
\* extractPlainText returns the trimmed text obtained by recursing over the
\* cell's inline tokens.
C9_ExtractPlainTextRecursesOverTokens ==
  (pc = "extracted" /\ cell.kind = "object" /\ cell.isArray)
    => text = Trim(PlainText(cell.tokens))

\* C10: in rowToKpiData a mapped cell that is exactly "N/A", "" or "-" leaves
\* its field null, any other cell of a numeric field is parsed as a float with
\* null for a cell that does not parse, and the mapping never throws.
C10_MissingCellsNullAndNeverThrows ==
  source = "row" =>
    /\ pc # "thrown"
    /\ pc \in {"record", "normalized"} =>
         LET mapped ==
               MapColumns(headers, row, EmptyKpiData(FetchDate, FetchTime),
                          1).kpi
         IN \A i \in 1 .. Len(row) :
              headers[i] \in DOMAIN columnMapping =>
                LET f == columnMapping[headers[i]]
                IN /\ row[i] \in {NA, <<>>, Dash} => mapped[f] = Null
                   /\ (row[i] \notin {NA, <<>>, Dash}
                       /\ f \in NumericPatternFields)
                        => mapped[f] = NullIfNaN(parseFloat(row[i]))

\* C11 as stated: in the record rowToKpiData returns, every field named by
\* the dictionary for a header whose index is within the row holds the value
\* of the cell at that index (null for "N/A", "" and "-", a float for the
\* numeric fields, the cell string otherwise) and every other known field
\* (the fetch date and time aside) is null.
C11_FieldsTakeCellsByPosition ==
  (pc = "record" /\ source = "row") =>
    \A f \in KpiFields \ {"fetch_date", "fetch_time"} :
      LET idx == {i \in 1 .. Len(headers) :
                    /\ i <= Len(row)
                    /\ headers[i] \in DOMAIN columnMapping
                    /\ columnMapping[headers[i]] = f}
      IN IF idx = {} THEN kpiData[f] = Null
         ELSE \A i \in idx :
                kpiData[f] =
                  IF row[i] \in {NA, <<>>, Dash} THEN Null
                  ELSE IF f \in NumericPatternFields
                       THEN NullIfNaN(parseFloat(row[i]))
                       ELSE Str(row[i])

\* C11 amended: as above, except that current_price, which no header names,
\* holds the estimate taken from the record's ma20_simple_value,
\* ma50_simple_value and ma200_simple_value (one of these three values), and
\* that macd_signal, when its cell left it null and macd_value is neither null
\* nor 0, holds 0.9 * macd_value.
C11_FieldsTakeCellsByPosition_ExceptEstimates ==
  (pc = "record" /\ source = "row") =>
    \A f \in KpiFields \ {"fetch_date", "fetch_time"} :
      LET idx == {i \in 1 .. Len(headers) :
                    /\ i <= Len(row)
                    /\ headers[i] \in DOMAIN columnMapping
                    /\ columnMapping[headers[i]] = f}
          fromCell(i) ==
            IF row[i] \in {NA, <<>>, Dash} THEN Null
            ELSE IF f \in NumericPatternFields
                 THEN NullIfNaN(parseFloat(row[i]))
                 ELSE Str(row[i])
          NullOrZero(v) == v \in {Null, Zero}
      IN IF f = "current_price"
         THEN kpiData[f] \in {kpiData["ma20_simple_value"],
                              kpiData["ma50_simple_value"],
                              kpiData["ma200_simple_value"]}
         ELSE IF /\ f = "macd_signal"
                 /\ ~NullOrZero(kpiData["macd_value"])
                 /\ \A i \in idx : fromCell(i) = Null
              THEN kpiData[f] = JsMul(kpiData["macd_value"], Num(9, 10))
         ELSE IF idx = {} THEN kpiData[f] = Null
         ELSE \A i \in idx : kpiData[f] = fromCell(i)

\* a row has been mapped whose ticker, MACD and RSI cells are taken by
\* position, whose ADX cell is "N/A" and whose signal is estimated
C11_Witness ==
  /\ pc = "record"
  /\ source = "row"
  /\ headers = <<"Ticker", "MACD_Value", "MACD_Signal", "RSI_Value",
                 "ADX_Value">>
  /\ row = <<cAAPL, c2p5, NA, c50, NA>>
  /\ kpiData["ticker"] = Str(cAAPL)
  /\ kpiData["macd_value"] = Num(5, 2)
  /\ kpiData["rsi_value"] = Int2Num(50)
  /\ kpiData["adx_value"] = Null
  /\ kpiData["macd_signal"] = Num(9, 4)

\* C12: parseMarkdownTable returns {headers: [], rows: []} and does not throw
\* when the input is empty or absent, when the document holds no table, and
\* when its only tables have zero header cells.
C12_NoTableGivesEmptyResult ==
  (pc = "returned" /\ call.fn = "parseMarkdownTable") =>
    LET markdown == call.args[1]
        doc == markdown.tokens
        emptyOrAbsent ==
          \/ markdown.kind \in {"null", "undefined"}
          \/ markdown.kind = "string" /\ markdown.empty
        noUsableTable ==
          /\ markdown.kind = "string"
          /\ \A i \in 1 .. Len(doc) :
               doc[i].type = "table" =>
                 (~doc[i].hasHeader \/ Len(doc[i].header) = 0)
    IN (emptyOrAbsent \/ noUsableTable)
         => /\ ~ret.threw
            /\ ret.headers = <<>>
            /\ ret.rows = <<>>

\* a document of a paragraph and a table that has rows but no header cells
\* has been parsed to the empty result
C12_Witness ==
  /\ pc = "returned"
  /\ call.fn = "parseMarkdownTable"
  /\ call.args[1].kind = "string"
  /\ call.args[1].tokens = <<bkParagraph, bkNoHeaderCells>>
  /\ ret = EmptyTable

\* C13: of several tables parseMarkdownTable returns the headers and the rows
\* of the first one, in document order, with at least one header cell, and
\* all rows of that table in their order.
C13_FirstTableWithHeaderCells ==
  (pc = "returned" /\ call.fn = "parseMarkdownTable"
   /\ call.args[1].kind = "string" /\ ~call.args[1].empty) =>
    LET doc == call.args[1].tokens
        usable(i) == doc[i].type = "table" /\ doc[i].hasHeader
                     /\ Len(doc[i].header) >= 1
    IN \A i \in 1 .. Len(doc) :
         (usable(i) /\ \A j \in 1 .. i - 1 : ~usable(j))
           => /\ ~ret.threw
              /\ Len(ret.headers) = Len(doc[i].header)
              /\ \A k \in 1 .. Len(doc[i].header) :
                   ret.headers[k] = extractPlainText(doc[i].header[k])
              /\ Len(ret.rows) = Len(doc[i].rows)
              /\ \A r \in 1 .. Len(doc[i].rows) :
                   /\ Len(ret.rows[r]) = Len(doc[i].rows[r])
                   /\ \A k \in 1 .. Len(doc[i].rows[r]) :
                        ret.rows[r][k] =
                          extractPlainText(doc[i].rows[r][k])

\* a document whose first table has no header cells and which holds two
\* tables with header cells has been parsed to the first of the two
C13_Witness ==
  /\ pc = "returned"
  /\ call.fn = "parseMarkdownTable"
  /\ call.args[1].tokens = <<bkNoHeaderCells, bkOneColumn, bkTwoColumns>>
  /\ ret.headers = <<<<"A">>>>
  /\ ret.rows = <<<<<<"B">>>>, <<<<"A">>>>>>

\* C14: every record parseGrokResponse returns has a ticker; the records are
\* those of the rows with a ticker cell other than "N/A", "" and "-", in row
\* order (none when mapping a row threw and the exception was caught); and
\* every record processGrokResponse hands to insertKpiData or normalizeKpiData
\* has a ticker.
C14_OnlyRecordsWithTicker ==
  source = "grok" =>
    LET table == parseMarkdownTable(call.args[1].raw)
        hs == [i \in 1 .. Len(table.headers) |-> Label(table.headers[i])]
        withTicker(r) ==
          \E i \in 1 .. Len(hs) :
            /\ hs[i] = "Ticker"
            /\ i <= Len(r)
            /\ r[i] \notin {NA, <<>>, Dash}
        kept == SelectSeq(table.rows, withTicker)
        mapped(r) == rowToKpiData(hs, r, FetchDate, batch.fetchTime)
    IN /\ \A k \in 1 .. Len(ret) :
            ret[k]["ticker"] # Null /\ ret[k]["ticker"] # Str(<<>>)
       /\ IF table.threw \/ \E k \in 1 .. Len(table.rows) :
                              mapped(table.rows[k]).threw
          THEN ret = <<>>
          ELSE /\ Len(ret) = Len(kept)
               /\ \A k \in 1 .. Len(kept) : ret[k] = mapped(kept[k]).kpi
       /\ kpiData # NoRecord =>
            kpiData["ticker"] # Null /\ kpiData["ticker"] # Str(<<>>)
       /\ normalized # NoNormalized => normalized["ticker"] # Null

\* of a table whose first row has the ticker "N/A" the second row alone has
\* been returned and handed to insertKpiData
C14_Witness ==
  /\ source = "grok"
  /\ pc = "inserted"
  /\ call.args[1] = [raw |-> TableDocument(<<"Ticker", "RSI_Value">>,
                                           <<<<NA, c50>>, <<cAAPL, c50>>>>)]
  /\ Len(ret) = 1
  /\ kpiData["ticker"] = Str(cAAPL)

\* C15: parseNumeric returns a numeric input unchanged, for a string the
\* float parsed after removing every character that is not a digit, a decimal
\* point or a minus sign, null for null and for unparseable input, and NaN for
\* no input.
C15_ParseNumericNeverNaN ==
  (pc = "returned" /\ call.fn = "parseNumeric") =>
    LET value == call.args[1]
        kept == SelectSeq(value.s, LAMBDA c : c \in Digits \cup {".", "-"})
    IN /\ IsNumber(value) => ret = value
       /\ value.t = "str" =>
            ret = IF IsNaN(parseFloat(kept)) THEN Null ELSE parseFloat(kept)
       /\ IsNullish(value) => ret = Null
       /\ ~IsNaN(ret)

Centre(fn) ==
  CASE fn \in {"normalizeRSI", "normalizeStochastic",
               "normalizeUltimateOscillator"} -> <<50, 1>>
    [] fn = "normalizeStochRSI" -> <<1, 2>>
    [] fn = "normalizeWilliamsR" -> <<-50, 1>>
    [] fn = "normalizeADX" -> <<25, 1>>
    [] fn \in {"normalizeROC", "normalizeCCI"} -> <<0, 1>>

Scale(fn) ==
  CASE fn \in {"normalizeRSI", "normalizeStochastic",
               "normalizeUltimateOscillator", "normalizeWilliamsR"} -> <<50, 1>>
    [] fn = "normalizeStochRSI" -> <<1, 2>>
    [] fn = "normalizeROC" -> <<100, 1>>
    [] fn = "normalizeADX" -> <<25, 1>>
    [] fn = "normalizeCCI" -> <<200, 1>>

\* r = (v - c) / s for finite v, by cross-multiplication of the fractions
EqualsFormula(r, v, c, s) ==
  /\ r.t = "num"
  /\ r.n * (v.d * c[2] * s[1]) = (v.n * c[2] - c[1] * v.d) * s[2] * r.d

\* C18: each single-input transform returns (v - 50)/50 (RSI, Stochastic,
\* Ultimate Oscillator), (v - 0.5)/0.5 (StochRSI), (v + 50)/50 (Williams %R),
\* v/100 (ROC), (v - 25)/25 (ADX), v/200 (CCI) for a numeric input v, and
\* null for a null input.
C18_SingleInputFormulas ==
  (pc = "returned" /\ call.fn \in SingleInputTransforms) =>
    LET v == call.args[1]
    IN /\ v = Null => ret = Null
       /\ v.t = "num" => EqualsFormula(ret, v, Centre(call.fn), Scale(call.fn))
       /\ v.t = "inf" => ret = v
       /\ v.t = "nan" => ret = NaN

\* normalizeWilliamsR(-2.5) has returned 47.5/50
C18_Witness ==
  /\ pc = "returned"
  /\ call.fn = "normalizeWilliamsR"
  /\ call.args[1] = Num(-5, 2)
  /\ ret = Num(19, 20)

\* C19: normalizeMacd(macd, signal) is (macd - signal) / |signal| for numeric
\* macd and non-zero signal, so that its sign is the sign of macd - signal
\* whatever the sign of the signal; it is null when macd or signal is null or
\* the signal is 0.
C19_MacdOverAbsoluteSignal ==
  (pc = "returned" /\ call.fn = "normalizeMacd") =>
    LET macd == call.args[1]
        signal == call.args[2]
    IN /\ (macd = Null \/ signal = Null \/ signal = Zero) => ret = Null
       /\ (IsFinite(macd) /\ IsFinite(signal) /\ signal.n # 0) =>
            /\ ret.t = "num"
            /\ ret.n * (macd.d * Abs(signal.n))
                 = (macd.n * signal.d - signal.n * macd.d) * ret.d
            /\ Sign(ret.n) = Sign(macd.n * signal.d - signal.n * macd.d)
       /\ (IsNumber(macd) /\ IsNumber(signal) /\ signal # Zero) =>
            /\ (IsNaN(macd) \/ ~IsFinite(signal)) => ret = NaN
            /\ (macd.t = "inf" /\ IsFinite(signal)) => ret = macd

\* normalizeMacd(2, -3) has returned 5/3: a positive result for a negative
\* signal
C19_Witness ==
  /\ pc = "returned"
  /\ call = [fn |-> "normalizeMacd", args |-> <<Int2Num(2), Int2Num(-3)>>]
  /\ ret = Num(5, 3)

\* the seven pairs of simple moving averages: the output field, the short
\* average and the long average
MovingAveragePairs ==
  LET Pair(a, b) == <<"ma_trend_" \o a \o "_" \o b \o "_normalized",
                      "ma" \o a \o "_simple_value",
                      "ma" \o b \o "_simple_value">>
  IN {Pair("5", "10"), Pair("10", "20"), Pair("20", "50"), Pair("50", "100"),
      Pair("100", "200"), Pair("20", "200"), Pair("50", "200")}

\* r = (short - long) / long for finite short and long, long # 0
EqualsTrendFormula(r, short, long) ==
  /\ r.t = "num"
  /\ r.n * (short.d * long.n) = (short.n * long.d - long.n * short.d) * r.d

\* C20: normalizeMovingAverageTrend(short, long) is (short - long) / long for
\* numeric short and non-zero long; normalizeKpiData applies it to the seven
\* simple-MA pairs 5/10, 10/20, 20/50, 50/100, 100/200, 20/200 and 50/200,
\* and these seven with MACD and Bull/Bear Power are the nine members that
\* the trend score averages.
C20_MovingAverageTrendPairs ==
  LET Counted(v) == v # Null /\ ~IsNaN(v)
      members == {"macd_normalized", "bull_bear_power_normalized"}
                   \cup {p[1] : p \in MovingAveragePairs}
      trend == CategoryMembers("trend_score")
  IN /\ (pc = "returned" /\ call.fn = "normalizeMovingAverageTrend"
           /\ IsFinite(call.args[1]) /\ IsFinite(call.args[2])
           /\ call.args[2].n # 0)
          => EqualsTrendFormula(ret, call.args[1], call.args[2])
     /\ Cardinality(MovingAveragePairs) = 7
     /\ Cardinality(members) = 9
     /\ members \subseteq IndicatorFields
     /\ {trend[i] : i \in 1 .. Len(trend)} = members
     /\ pc = "normalized" =>
          /\ \A p \in MovingAveragePairs :
               LET short == kpiData[p[2]]
                   long == kpiData[p[3]]
               IN /\ (IsFinite(short) /\ IsFinite(long) /\ long.n # 0)
                       => EqualsTrendFormula(normalized[p[1]], short, long)
                  /\ (IsNullish(short) \/ IsNullish(long) \/ long = Zero)
                       => normalized[p[1]] = Null
          /\ normalized["trend_score"] =
               Mean(SelectSeq([i \in 1 .. Len(trend) |-> normalized[trend[i]]],
                              Counted))

\* a record holding all six simple moving averages has been normalized: all
\* seven pairs are non-null and the trend score is their mean, MACD and
\* Bull/Bear Power being null
C20_Witness ==
  /\ pc = "normalized"
  /\ \A p \in MovingAveragePairs : normalized[p[1]] # Null
  /\ normalized["ma_trend_5_10_normalized"] = Num(3, 2)
  /\ normalized["ma_trend_50_100_normalized"] = Num(-3, 5)
  /\ normalized["ma_trend_50_200_normalized"] = Zero
  /\ normalized["macd_normalized"] = Null
  /\ normalized["bull_bear_power_normalized"] = Null
  /\ normalized["trend_score"] = Num(24, 35)

\* C21: processGrokResponse, given a response with at least one valid record
\* and with every insert succeeding, stores one raw and one normalized record
\* per valid record and returns processed = normalized = the number of valid
\* records, which is greater than 0; given a response without a parsable
\* record it returns processed = 0 and normalized = 0 and stores nothing.
C21_CountsOfProcessGrokResponse ==
  (pc = "done" /\ source = "grok") =>
    LET valid == Len(batch.valid)
        allStored == \A i \in 1 .. Len(batch.attempts) :
                       batch.attempts[i].raw /\ batch.attempts[i].normalization
    IN /\ batch.result.returned
       /\ (valid >= 1 /\ allStored) =>
            /\ batch.result.processed = valid
            /\ batch.result.normalized = valid
            /\ batch.result.processed > 0
            /\ db.kpi_data_seq = batch.before.kpi_data_seq + valid
            /\ db.normalization_seq = batch.before.normalization_seq + valid
            /\ \A i \in 1 .. valid :
                 /\ \E r \in db.kpi_data :
                      r.data["ticker"] = batch.valid[i]["ticker"]
                 /\ \E n \in db.normalization :
                      n.data["ticker"] = batch.valid[i]["ticker"]
       /\ batch.total = 0 =>
            /\ batch.result.processed = 0
            /\ batch.result.normalized = 0
            /\ db = batch.before

\* a response with the valid rows of AAPL and MSFT has been processed with
\* every insert succeeding: two raw and two normalized records are stored
C21_Witness ==
  /\ pc = "done"
  /\ batch.calls = 1
  /\ batch.result.processed = 2
  /\ batch.result.normalized = 2
  /\ Cardinality(db.kpi_data) = 2
  /\ Cardinality(db.normalization) = 2
  /\ {r.data["ticker"] : r \in db.kpi_data} = {Str(cAAPL), Str(cMSFT)}

\* a value that is there: neither null nor undefined nor the empty string
Present(v) == v.t = "str" /\ v.s # <<>>

\* valid as C22 states it
ValidAsStated(kpi) ==
  /\ Present(kpi["ticker"])
  /\ Present(kpi["fetch_date"])
  /\ Present(kpi["fetch_time"])
  /\ ~(/\ kpi["rsi_value"] = Null
       /\ kpi["stochastic_value"] = Null
       /\ kpi["macd_value"] = Null
       /\ kpi["adx_value"] = Null
       /\ kpi["ma20_simple_value"] = Null
       /\ kpi["ma50_simple_value"] = Null
       /\ kpi["ma200_simple_value"] = Null)

\* C22: validateKpiData reports a record valid exactly when ticker,
\* fetch_date and fetch_time are present and at least one of rsi_value,
\* stochastic_value, macd_value, adx_value, ma20_simple_value,
\* ma50_simple_value and ma200_simple_value is not null; prepareForDatabase
\* returns exactly the valid records of its input, in their order.
C22_ValidRecordsKeptInOrder ==
  /\ (pc = "returned" /\ call.fn = "validateKpiData")
       => (ret.isValid <=> ValidAsStated(call.args[1]))
  /\ (pc = "returned" /\ call.fn = "prepareForDatabase")
       => ret = SelectSeq(call.args[1], ValidAsStated)
  /\ (source = "grok" /\ pc = "processing" /\ batch.attempts = <<>>)
       => validKpiData = SelectSeq(ret, ValidAsStated)

\* prepareForDatabase has been given a record without indicator values
\* between two valid records and has returned the two, in order
C22_Witness ==
  /\ pc = "returned"
  /\ call.fn = "prepareForDatabase"
  /\ Len(call.args[1]) = 3
  /\ ~ValidAsStated(call.args[1][2])
  /\ Len(ret) = 2
  /\ ret[1] = call.args[1][1]
  /\ ret[2] = call.args[1][3]
  /\ ret[1] # ret[2]


\* C25: after any sequence of processGrokResponse calls, every stored
\* normalized record refers through kpi_data_id to a raw record that is still
\* stored, and no stored raw record has more than one normalized record.
C25_NormalizationRefersToStoredRaw ==
  source = "grok" =>
    /\ \A n \in db.normalization :
         \E r \in db.kpi_data : r.id = n.kpi_data_id
    /\ \A r \in db.kpi_data :
         Cardinality({n \in db.normalization : n.kpi_data_id = r.id}) <= 1


\* the number of turns noted in attempts for which sel holds
CountAttempts(attempts, sel(_)) ==
  Cardinality({i \in 1 .. Len(attempts) : sel(attempts[i])})

\* C26: processGrokResponse attempts every valid record exactly once and in
\* order, whatever happened to the records before it: a rejected
\* insertKpiData or insertNormalization ends the turn of that record only; a
\* normalized record is inserted only after its raw record was inserted; and
\* the counters satisfy normalized <= processed <= valid records <= total.
C26_EveryValidRecordAttemptedOnce ==
  (source = "grok" /\ pc \in {"processing", "inserted", "computed", "done"}) =>
    LET attempts == batch.attempts
        inTurn == IF pc \in {"inserted", "computed"} THEN 1 ELSE 0
        RawStored(a) == a.raw
        NormalizationStored(a) == a.normalization
    IN /\ Len(attempts) <= Len(batch.valid)
       /\ \A i \in 1 .. Len(attempts) : attempts[i].kpiData = batch.valid[i]
       /\ validKpiData = SubSeq(batch.valid, Len(attempts) + 1,
                                Len(batch.valid))
       /\ (pc = "done" /\ batch.result.hasTotal) =>
            /\ Len(attempts) = Len(batch.valid)
            /\ batch.result.processed = batch.processed
            /\ batch.result.normalized = batch.normalized
            /\ batch.result.total = batch.total
       /\ \A i \in 1 .. Len(attempts) :
            attempts[i].normalization => attempts[i].raw
       /\ pc = "computed" => batch.kpiDataId = LastKpiDataId(db)
       /\ batch.processed = CountAttempts(attempts, RawStored) + inTurn
       /\ batch.normalized = CountAttempts(attempts, NormalizationStored)
       /\ batch.normalized <= batch.processed
       /\ batch.processed <= Len(batch.valid)
       /\ Len(batch.valid) <= batch.total

\* a batch of two valid records has returned: insertKpiData rejected the
\* first, the second went through both inserts
C26_Witness ==
  /\ source = "grok"
  /\ pc = "done"
  /\ Len(batch.valid) = 2
  /\ Len(batch.attempts) = 2
  /\ ~batch.attempts[1].raw
  /\ batch.attempts[2].raw /\ batch.attempts[2].normalization
  /\ batch.result.processed = 1
  /\ batch.result.normalized = 1
  /\ batch.result.total = 2


\* the cell of the row under the header, or no cell when the table has no
\* such column or the row ends before it
HasCell(hs, r, header) == \E i \in 1 .. Len(r) : i <= Len(hs) /\ hs[i] = header
CellUnder(hs, r, header) ==
  r[CHOOSE i \in 1 .. Len(r) : i <= Len(hs) /\ hs[i] = header]

\* the row gives no MACD signal: no column, or a cell "N/A", "" or "-"
NoMacdSignal(hs, r) ==
  HasCell(hs, r, "MACD_Signal") =>
    CellUnder(hs, r, "MACD_Signal") \in MissingCells

\* C30: for a row with a MACD value other than zero and no MACD signal
\* (column absent, or cell "N/A", "" or "-") rowToKpiData sets macd_signal to
\* 0.9 times the MACD value, so that macd_normalized is 1/9 with the sign of
\* the MACD value; when the MACD value is null or 0 the signal stays null and
\* macd_normalized is null.
C30_MacdSignalEstimate ==
  (source = "row" /\ pc = "normalized" /\ NoMacdSignal(headers, row)) =>
    LET macd == kpiData["macd_value"]
    IN /\ (IsNumber(macd) /\ ~IsZero(macd)) =>
            /\ kpiData["macd_signal"] = JsMul(macd, Num(9, 10))
            /\ normalized["macd_normalized"] = Num(SignOf(macd), 9)
       /\ (macd = Null \/ IsZero(macd)) =>
            /\ kpiData["macd_signal"] = Null
            /\ normalized["macd_normalized"] = Null


\* C29: for every record normalizeKpiData returns, computeCompositeComponents
\* gives momentum, trend, volatility, strength and support components equal
\* to the five scores of the record, and its compositeScore is null exactly
\* when overall_score is null.
C29_ComponentsEqualScores ==
  (pc = "returned" /\ call.fn = "computeCompositeComponents") =>
    /\ call.args[1] = normalized
    /\ ret.momentumComponent = normalized["momentum_score"]
    /\ ret.trendComponent = normalized["trend_score"]
    /\ ret.volatilityComponent = normalized["volatility_score"]
    /\ ret.strengthComponent = normalized["strength_score"]
    /\ ret.supportComponent = normalized["support_resistance_score"]
    /\ (ret.compositeScore = Null <=> normalized["overall_score"] = Null)

\* components were computed for a record whose trend members include bull/bear
\* power and whose momentum members are all null
C29_Witness ==
  /\ pc = "returned"
  /\ call.fn = "computeCompositeComponents"
  /\ normalized["bull_bear_power_normalized"] \notin {Null, Undefined}
  /\ normalized["macd_normalized"] \notin {Null, Undefined}
  /\ normalized["bull_bear_power_normalized"] # normalized["macd_normalized"]
  /\ ret.momentumComponent = Null
  /\ ret.trendComponent # Null
  /\ ret.compositeScore # Null


\* C27: for one NormalizationIntegration instance, under any interleaving of
\* operations started before initialization has completed, the database is
\* initialized at most once; isInitialized becomes true only after
\* db.initialize succeeded and stays false when it fails.
C27_InitializedAtMostOnce ==
  /\ integration.resolved <= 1
  /\ integration.isInitialized <=> integration.resolved >= 1


\* the rows of the sheet are the first count data rows of the CSV, in their
\* order, numbered from row 2
FirstRowsFromRow2(prompt, allRows, count) ==
  /\ Len(prompt.sheetRows) = count
  /\ prompt.tickerCount = count
  /\ \A i \in 1 .. count :
       /\ prompt.sheetRows[i].line = allRows[i]
       /\ prompt.sheetRows[i].row = i + 1

\* C23 as stated: loadPrompt with a ticker limit N that is a positive finite
\* number includes exactly the first min(N, total) data rows of the ticker
\* CSV, in their order and numbered from row 2; with limit 'all', null or an
\* invalid limit it includes every data row.
C23_FirstMinRows ==
  server.loaded # NoPrompt =>
    LET allRows == server.loaded.dataRaw.allRows
        total == Len(allRows)
        N == Number(server.loaded.tickerLimit)
    IN IF PositiveFinite(N)
       THEN /\ Int2Num(server.loaded.prompt.tickerCount)
                 = (IF N.n <= total * N.d THEN N ELSE Int2Num(total))
            /\ FirstRowsFromRow2(server.loaded.prompt, allRows,
                                 server.loaded.prompt.tickerCount)
       ELSE FirstRowsFromRow2(server.loaded.prompt, allRows, total)

\* C23, amended: loadPrompt with a ticker limit N that is a positive finite
\* number includes exactly the first min(floor(N), total) data rows of the
\* ticker CSV (none for N below 1), in their order and numbered from row 2;
\* with limit 'all', null or an invalid limit it includes every data row.
C23_FirstWholeRows ==
  server.loaded # NoPrompt =>
    LET allRows == server.loaded.dataRaw.allRows
        total == Len(allRows)
        N == Number(server.loaded.tickerLimit)
        whole == N.n \div N.d
    IN IF PositiveFinite(N)
       THEN FirstRowsFromRow2(server.loaded.prompt, allRows,
                              IF whole <= total THEN whole ELSE total)
       ELSE FirstRowsFromRow2(server.loaded.prompt, allRows, total)

\* loadPrompt was called with the limit 1.5 on a CSV of MaxTickers data rows
\* and put one row into the document, as row2
C23_Witness ==
  /\ server.loaded # NoPrompt
  /\ server.loaded.tickerLimit = Num(3, 2)
  /\ Len(server.loaded.dataRaw.allRows) = MaxTickers
  /\ server.loaded.prompt.tickerCount = 1
  /\ server.loaded.prompt.sheetRows[1].row = 2


\* C24: after any sequence of requests with any ticker limits, a response is
\* served from the cache (cached: true) only if refresh was not requested and
\* the payload returned is one fetched from Grok for the requested ticker
\* limit less than CACHE_TTL_MS earlier; a fetch for one limit never makes an
\* older payload of another limit count as fresh.
C24_CachedOnlyWhenFresh ==
  (server.response.kind = "ok" /\ server.response.cached) =>
    /\ ~server.response.skipCache
    /\ server.response.payload # Null
    /\ server.response.payload.tickerLimit = server.response.tickerLimit
    /\ server.response.at - server.response.payload.fetchedAt < CACHE_TTL_MS


\* the time of the last fetch noted, 0 when there is none
LatestFetch(fetched) ==
  LET times == {fetched[k].fetchedAt : k \in {k \in DOMAIN fetched :
                                                fetched[k] # Null}}
  IN IF times = {} THEN 0 ELSE CHOOSE t \in times : \A u \in times : u <= t

\* C28: a Grok request that fails (API key missing or invalid, network error,
\* empty content) leaves the cache as it was: cachedPayload and cachedAt are
\* only assigned, and together, after a response with content; and a later
\* request without refresh made within CACHE_TTL_MS of the last such fetch
\* is still served that payload from the cache.
C28_FailedRequestLeavesCache ==
  /\ server.cachedPayloads = server.fetched
  /\ server.cachedAt = LatestFetch(server.fetched)
  /\ \A request \in server.inFlight : ~request.servable
  /\ server.response.kind = "error" => ~server.response.servable
  /\ (server.response.kind = "ok" /\ server.response.servable) =>
       /\ server.response.cached
       /\ server.response.payload =
            server.fetched[CacheKey(server.perLimit,
                                    server.response.tickerLimit)]

\* a payload was fetched, a later request failed, and a request without
\* refresh after that was served the payload from the cache
C28_Witness ==
  /\ server.response.kind = "ok"
  /\ server.response.cached
  /\ server.failedSince >= 1
  /\ server.response.payload = server.cachedPayloads[
       CacheKey(server.perLimit, server.response.tickerLimit)]
  /\ server.response.at - server.response.payload.fetchedAt < CACHE_TTL_MS

====
